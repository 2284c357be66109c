-------------------------- MODULE AgentRouterProofs --------------------------
(* Proofs about AgentRouter, for any instances, hash keys, goroutines and   *)
(* watchers, and any number of events: the bounds of the model are          *)
(* constants.                                                               *)
EXTENDS AgentRouter, FiniteSetTheorems, SequenceTheorems, WellFoundedInduction, TLAPS

-----------------------------------------------------------------------------
(* The inductive invariant, in four parts.                                 *)

Distinct(l) == \A i, j \in 1 .. Len(l) : l[i] = l[j] => i = j
Elements(l) == {l[i] : i \in 1 .. Len(l)}

Values == Attrs \cup {NoAttr}

Events ==
    [stage : {"router", "watchers"}, kind : {"online", "offline", "attr"},
     inst : Remotes, attr : Values, wcopy : SUBSET Watchers]

RouterType ==
    /\ local \in SUBSET Locals /\ remote \in SUBSET Remotes
    /\ attr \in [Insts -> Values] /\ instAttrs \in [Insts -> Values]
    /\ router \in BOOLEAN /\ crossed \in BOOLEAN
    /\ instAddrs \in SUBSET Insts /\ instOpts \in SUBSET Insts
    /\ event \in Events \cup {NoEvent}
    /\ pc \in [Getters -> {"idle", "locals", "remotes", "next", "look", "opts", "attr"}]
    /\ todo \in [Getters -> SUBSET Insts]
    /\ cur \in [Getters -> Insts \cup {NoInst}]
    /\ hold \in [Getters -> Values]
    /\ \A g \in Getters : pc[g] \in {"look", "opts", "attr"} => cur[g] \in Insts
    /\ watchers \in SUBSET Watchers
    /\ view \in [Watchers -> SUBSET Insts] /\ wtodo \in [Watchers -> SUBSET Insts]
    /\ wpc \in [Watchers -> {"new", "read", "call", "idle", "gone"}]

\* The two lists hold what the two maps hold.
ListsAgree ==
    /\ instIDs \in Seq(Insts) /\ Distinct(instIDs) /\ Elements(instIDs) = instAddrs
    /\ IsFiniteSet(instOpts)
    /\ ConsHashList \in refreshConsHashList(instOpts)

\* The event the loop has is of kind k and of h, and is at that stage.
Pending(s, k, h) == event # NoEvent /\ event.stage = s /\ event.kind = k /\ event.inst = h

\* A getter has not read the services yet, or has h among those to add.
Awaited(h) == \E g \in Getters : pc[g] \in {"locals", "remotes"} \/ h \in todo[g]

\* Nothing is missing, except what the loop or a getter is going to add.
MissingInv ==
    /\ \A g \in Getters : pc[g] \in {"idle", "locals"} => todo[g] = {}
    /\ ~ router => instAddrs = {} /\ \A g \in Getters : pc[g] = "idle"
    /\ \A h \in Remotes, s \in {"router", "watchers"} :
          /\ Pending(s, "online", h) => h \in remote
          /\ Pending(s, "offline", h) => h \notin remote
    /\ router => \A h \in remote :
          h \in instAddrs \/ Pending("router", "online", h) \/ Awaited(h)

\* A getter is going to read the options and the attributes of h.
Comes(h) ==
    \/ Awaited(h)
    \/ \E g \in Getters : pc[g] \in {"look", "opts"} /\ cur[g] = h

\* Options and attributes are of instances the router has.
Subsets ==
    /\ instOpts \subseteq instAddrs
    /\ \A g \in Getters : pc[g] \in {"look", "opts", "attr"} => cur[g] \in instAddrs
    /\ \A h \in Remotes : h \notin instAddrs => instAttrs[h] = NoAttr

\* What the router and the getters have is online, or is about to be taken away.
Online ==
    \A h \in Remotes :
        (h \in instAddrs \/ \E g \in Getters : Holds(g, h)) =>
            h \in remote \/ Pending("router", "offline", h)

\* What a getter has read is the attribute, or the loop is about to set it.
AttrsRead ==
    /\ \A h \in remote : Pending("router", "attr", h) => event.attr = attr[h]
    /\ \A g \in Getters :
          pc[g] = "attr" /\ cur[g] \in remote =>
              hold[g] = attr[cur[g]] \/ Pending("router", "attr", cur[g])

\* The options and attributes are those of the service, or are about to be.
OptsKnown ==
    \A h \in remote : h \in instAddrs => h \in instOpts \/ Comes(h)
AttrsKnown ==
    router => \A h \in remote :
        \/ instAttrs[h] = attr[h]
        \/ Pending("router", "attr", h)
        \/ Comes(h)
        \/ \E g \in Getters : pc[g] = "attr" /\ cur[g] = h

AgreeInv == Subsets /\ Online /\ AttrsRead /\ OptsKnown /\ AttrsKnown

\* A call to w about h is still to be made.
Call(k, h, w) == Pending("watchers", k, h) /\ w \in event.wcopy

\* A watcher was told what the router has, except for the call that is to be made.
ViewInv ==
    /\ \A h \in Remotes : Pending("watchers", "online", h) => h \in instAddrs
    /\ \A w \in Watchers : wpc[w] \in {"read", "call", "idle"} <=> w \in watchers
    /\ \A w \in Watchers : wpc[w] = "new" => view[w] = {} /\ (event # NoEvent => w \notin event.wcopy)
    /\ \A w \in watchers, h \in Remotes :
          /\ h \in view[w] /\ h \notin instAddrs => Call("offline", h, w)
          /\ wpc[w] = "call" => (h \in wtodo[w] <=> h \in instAddrs)
          /\ wpc[w] = "idle" /\ h \in instAddrs /\ h \notin view[w] => Call("online", h, w)

RouterInv == RouterType /\ ListsAgree /\ MissingInv
QuietInv == ~ crossed => AgreeInv
WatchInv == ~ crossed => ViewInv

-----------------------------------------------------------------------------
(* Lists.                                                                  *)

LEMMA LeastNumber ==
    ASSUME NEW T \in SUBSET Nat, T # {} PROVE \E x \in T : \A y \in T : x <= y
<1> DEFINE R == OpToRel(<, Nat)
<1>1. IsWellFoundedOn(R, Nat)
  BY NatLessThanWellFounded, Zenon
<1>2. \A x, y \in Nat : y < x => <<y, x>> \in R
  BY Zenon DEF OpToRel
<1> HIDE DEF R
<1>3. \E x \in T : \A y \in T : ~ (<<y, x>> \in R)
  BY <1>1, WFMin
<1>4. \E x \in T : \A y \in T : ~ (y < x)
  BY <1>2, <1>3, Zenon
<1> QED
  BY <1>4

\* Taking an instance out of instIDs.
LEMMA RemoveFirstElements ==
    ASSUME NEW S, NEW l \in Seq(S), Distinct(l), NEW h \in Elements(l)
    PROVE  /\ RemoveFirst(l, h) \in Seq(S)
           /\ Elements(RemoveFirst(l, h)) = Elements(l) \ {h}
           /\ Distinct(RemoveFirst(l, h))
<1>1. PICK k \in 1 .. Len(l) : l[k] = h
  BY DEF Elements
<1> DEFINE a == SubSeq(l, 1, k - 1)
           b == SubSeq(l, k + 1, Len(l))
           m == a \o b
<1>2. RemoveFirst(l, h) = m
  <2> DEFINE I == {i \in 1 .. Len(l) : l[i] = h}
  <2>1. I = {k} /\ Min(I) = k
    BY <1>1 DEF Distinct, Min
  <2> QED
    BY <2>1 DEF RemoveFirst, SelectInSeq, RemoveAt
<1>3. a \in Seq(S) /\ Len(a) = k - 1 /\ \A i \in 1 .. k - 1 : a[i] = l[i]
  BY <1>1, SubSeqProperties
<1>4. b \in Seq(S) /\ Len(b) = Len(l) - k /\ \A i \in 1 .. Len(l) - k : b[i] = l[k + i]
  BY <1>1, SubSeqProperties
<1> HIDE DEF a, b
<1>5. m \in Seq(S) /\ Len(m) = Len(l) - 1
  BY <1>1, <1>3, <1>4, ConcatProperties
<1>6. \A j \in 1 .. Len(m) : m[j] = IF j < k THEN l[j] ELSE l[j + 1]
  BY <1>1, <1>3, <1>4, <1>5, ConcatProperties
<1> HIDE DEF m
<1>7. Elements(m) \subseteq Elements(l) \ {h}
  BY <1>1, <1>5, <1>6 DEF Elements, Distinct
<1>8. ASSUME NEW p \in 1 .. Len(l), l[p] # h PROVE \E j \in 1 .. Len(m) : m[j] = l[p]
  <2>1. CASE p < k
    BY <1>5, <1>6, <2>1
  <2>2. CASE p > k
    <3>1. p - 1 \in 1 .. Len(m) /\ m[p - 1] = l[p]
      BY <1>5, <1>6, <2>2, SMTT(30)
    <3> QED
      BY <3>1
  <2> QED
    BY <1>1, <1>8, <2>1, <2>2
<1>9. Elements(m) = Elements(l) \ {h}
  BY <1>7, <1>8 DEF Elements
<1>10. Distinct(m)
  BY <1>1, <1>5, <1>6 DEF Distinct
<1> QED
  BY <1>2, <1>5, <1>9, <1>10

\* Adding one that is not there.
LEMMA AppendElements ==
    ASSUME NEW S, NEW l \in Seq(S), Distinct(l), NEW h \in S, h \notin Elements(l)
    PROVE  /\ Append(l, h) \in Seq(S)
           /\ Elements(Append(l, h)) = Elements(l) \cup {h}
           /\ Distinct(Append(l, h))
<1> DEFINE m == Append(l, h)
<1>1. /\ m \in Seq(S) /\ Len(m) = Len(l) + 1 /\ m[Len(l) + 1] = h
      /\ \A i \in 1 .. Len(l) : m[i] = l[i]
  BY AppendProperties
<1> HIDE DEF m
<1>2. Elements(m) \subseteq Elements(l) \cup {h}
  BY <1>1 DEF Elements
<1>3. Elements(l) \cup {h} \subseteq Elements(m)
  <2>1. h \in Elements(m)
    BY <1>1 DEF Elements
  <2>2. ASSUME NEW i \in 1 .. Len(l) PROVE l[i] \in Elements(m)
    <3>1. i \in 1 .. Len(m) /\ m[i] = l[i]
      BY <1>1
    <3> QED
      BY <3>1 DEF Elements
  <2> QED
    BY <2>1, <2>2 DEF Elements
<1>4. Distinct(m)
  BY <1>1 DEF Distinct, Elements
<1> QED
  BY <1>1, <1>2, <1>3, <1>4 DEF m

\* What sort.Slice gives holds every instance, by ascending keys.
LEMMA SortedList ==
    ASSUME NEW O, IsFiniteSet(O), NEW l \in refreshConsHashList(O)
    PROVE  /\ l \in Seq(O) /\ Elements(l) = O
           /\ \A i, j \in 1 .. Len(l) : i < j => HashKey[l[i]] <= HashKey[l[j]]
<1> DEFINE n == Cardinality(O)
           D == 1 .. n
<1>1. n \in Nat
  BY FS_CardinalityType
<1>2. /\ l \in [D -> O]
      /\ \A i, j \in D : i # j => l[i] # l[j]
      /\ \A i, j \in 1 .. Len(l) : i < j => HashKey[l[i]] <= HashKey[l[j]]
  BY DEF refreshConsHashList, SetToSeqs, IsSorted
<1>3. IsFiniteSet(D) /\ Cardinality(D) = n
  <2> HIDE DEF n
  <2>1. IsFiniteSet(1 .. n) /\ Cardinality(1 .. n) = IF 1 > n THEN 0 ELSE n - 1 + 1
    BY <1>1, FS_Interval
  <2> QED
    BY <1>1, <2>1
<1>4. l \in Surjection(D, O)
  <2>1. l \in Injection(D, O)
    BY <1>2 DEF Injection, IsInjective
  <2> HIDE DEF D
  <2> QED
    BY <1>3, <2>1, FS_Injection
<1> HIDE DEF n
<1>5. l \in Seq(O) /\ Len(l) = n
  BY <1>1, <1>2
<1>6. Elements(l) = O
  BY <1>2, <1>4, <1>5 DEF Surjection, Elements
<1> QED
  BY <1>2, <1>5, <1>6

\* The scan for the first larger key finds the owner of the reference definition.
LEMMA OwnerFound ==
    ASSUME instOpts \in SUBSET Insts, ListsAgree, instOpts # {}, NEW key \in Nat
    PROVE  HashOwner(key) \in OwnerOf(key)
<1> DEFINE l == ConsHashList
           D == 1 .. Len(l)
           above == {i \in D : key < HashKey[l[i]]}
           high == {h \in instOpts : HashKey[h] > key}
<1>1. /\ l \in Seq(instOpts) /\ Elements(l) = instOpts
      /\ \A i, j \in D : i < j => HashKey[l[i]] <= HashKey[l[j]]
  BY SortedList DEF ListsAgree
<1>2. DOMAIN l = D /\ Len(l) \in Nat /\ \A i \in D : l[i] \in instOpts
  BY <1>1
<1>3. \A h \in instOpts : HashKey[h] \in Nat
  BY RouterConstants
<1>4. \A h \in instOpts : \E i \in D : l[i] = h
  BY <1>1 DEF Elements
<1>5. HashOwner(key) = l[IF above = {} THEN 1 ELSE CHOOSE i \in above : \A j \in above : i <= j]
  BY <1>2 DEF HashOwner
<1>6. CASE above = {}
  <2>1. high = {}
    BY <1>4, <1>6
  <2>2. 1 \in D
    BY <1>2, <1>4
  <2>3. ASSUME NEW h \in instOpts PROVE HashKey[l[1]] <= HashKey[h]
    <3>1. PICK i \in D : l[i] = h
      BY <1>4
    <3>2. CASE i = 1
      BY <1>3, <3>1, <3>2
    <3>3. CASE i > 1
      BY <1>1, <2>2, <3>1, <3>3
    <3> QED
      BY <1>2, <3>1, <3>2, <3>3
  <2> QED
    BY <1>2, <1>5, <1>6, <2>1, <2>2, <2>3 DEF OwnerOf
<1>7. CASE above # {}
  <2> DEFINE m == CHOOSE i \in above : \A j \in above : i <= j
  <2>1. above \in SUBSET Nat
    BY <1>2
  <2>2. m \in above /\ \A j \in above : m <= j
    <3> HIDE DEF above
    <3>1. \E i \in above : \A j \in above : i <= j
      BY <1>7, <2>1, LeastNumber
    <3> QED
      BY <3>1
  <2> HIDE DEF m
  <2>3. m \in D /\ l[m] \in high
    BY <1>2, <1>3, <2>2
  <2>4. ASSUME NEW h \in high PROVE HashKey[l[m]] <= HashKey[h]
    <3>1. PICK i \in D : l[i] = h
      BY <1>4
    <3>2. i \in above
      BY <1>3, <3>1
    <3>3. m <= i
      BY <2>2, <3>2
    <3>4. CASE i = m
      BY <1>3, <2>3, <3>1, <3>4
    <3>5. CASE i > m
      BY <1>1, <2>3, <3>1, <3>5
    <3> QED
      BY <1>2, <2>3, <3>3, <3>4, <3>5
  <2>5. HashOwner(key) = l[m]
    BY <1>5, <1>7 DEF m
  <2> QED
    BY <2>3, <2>4, <2>5 DEF OwnerOf
<1> QED
  BY <1>6, <1>7

-----------------------------------------------------------------------------
(* Types and lists.                                                        *)

LEMMA TypeStep ==
    ASSUME RouterType, [Next]_vars PROVE RouterType'
<1> USE DEF RouterType, Values, Insts
<1>1. ASSUME NEW h \in Locals, RegisterLocal(h) \/ UnRegisterLocal(h) PROVE RouterType'
  BY <1>1 DEF RegisterLocal, UnRegisterLocal, Change, instVars, getVars, watchVars
<1>2. ASSUME NEW h \in Locals, NEW a \in Attrs, SetAttribute(h, a) PROVE RouterType'
  BY <1>2 DEF SetAttribute, Change, getVars, watchVars
<1>3. ASSUME NEW h \in Remotes, EventOnline(h) \/ EventOffline(h) PROVE RouterType'
  <2>1. Event("online", h, NoAttr) \in Events /\ Event("offline", h, NoAttr) \in Events
    BY DEF Event, Events
  <2> QED
    BY <1>3, <2>1 DEF EventOnline, EventOffline, Change, instVars, getVars, watchVars
<1>4. ASSUME NEW h \in Remotes, NEW a \in Attrs, EventSyncAttr(h, a) PROVE RouterType'
  <2>1. Event("attr", h, a) \in Events
    BY DEF Event, Events
  <2> QED
    BY <1>4, <2>1 DEF EventSyncAttr, Change, instVars, getVars, watchVars
<1>5. ASSUME NEW s \in {"Switching", "Ready"}, EventRouterUpdate(s) PROVE RouterType'
  BY <1>5 DEF EventRouterUpdate, Change, svcVars, instVars, getVars, watchVars
<1>6. CASE EventLoop
  <2>1. EventIgnored \/ RouterOnline \/ RouterOffline \/ RouterSyncAttr \/ CallWatchers
    BY <1>6 DEF EventLoop
  <2>2. event \in Events
    BY <2>1 DEF EventIgnored, RouterOnline, RouterOffline, RouterSyncAttr, CallWatchers, NoEvent
  <2>3. event.inst \in Remotes /\ event.attr \in Values
    BY <2>2 DEF Events
  <2>4. [event EXCEPT !.stage = "watchers", !.wcopy = watchers] \in Events
    BY <2>2 DEF Events
  <2>5. CASE EventIgnored
    BY <2>5 DEF EventIgnored, svcVars, instVars, getVars, watchVars
  <2>6. CASE RouterOnline
    BY <2>3, <2>4, <2>6 DEF RouterOnline, SetOpts, svcVars, getVars, watchVars
  <2>7. CASE RouterOffline
    BY <2>3, <2>4, <2>7 DEF RouterOffline, SetOpts, svcVars, getVars, watchVars
  <2>8. CASE RouterSyncAttr
    BY <2>3, <2>4, <2>8 DEF RouterSyncAttr, svcVars, getVars, watchVars
  <2>9. CASE CallWatchers
    BY <2>3, <2>9 DEF CallWatchers, svcVars, instVars, getVars
  <2> QED
    BY <2>1, <2>5, <2>6, <2>7, <2>8, <2>9
<1>7. ASSUME NEW g \in Getters, GetStep(g) PROVE RouterType'
  <2>1. CASE GetNameRouter(g)
    BY <2>1 DEF GetNameRouter, Goto, svcVars, watchVars
  <2>2. CASE GetLocalInsts(g)
    BY <2>2 DEF GetLocalInsts, Goto, svcVars, instVars, watchVars
  <2>3. CASE GetRemoteInsts(g)
    BY <2>3 DEF GetRemoteInsts, Goto, svcVars, instVars, watchVars
  <2>4. ASSUME NEW h \in Insts, AddInstsAddr(g, h) PROVE RouterType'
    BY <2>4 DEF AddInstsAddr, Goto, svcVars, watchVars
  <2>5. CASE FindService(g)
    BY <2>5 DEF FindService, Goto, svcVars, instVars, watchVars
  <2>6. CASE AddInstsOpts(g)
    BY <2>6 DEF AddInstsOpts, SetOpts, Goto, svcVars, watchVars
  <2>7. CASE AddInstsAttr(g)
    BY <2>7 DEF AddInstsAttr, Goto, svcVars, watchVars
  <2>8. CASE GetDone(g)
    BY <2>8 DEF GetDone, Goto, svcVars, instVars, watchVars
  <2> QED
    BY <1>7, <2>1, <2>2, <2>3, <2>4, <2>5, <2>6, <2>7, <2>8 DEF GetStep
<1>8. ASSUME NEW w \in Watchers, WatchStep(w) PROVE RouterType'
  BY <1>8 DEF WatchStep, Watch, WatchRead, WatchCall, UnWatch, svcVars, instVars, getVars
<1>9. CASE UNCHANGED vars
  BY <1>9 DEF vars, svcVars, instVars, getVars, watchVars
<1> QED
  BY <1>1, <1>2, <1>3, <1>4, <1>5, <1>6, <1>7, <1>8, <1>9 DEF Next

\* The options stay a finite set.
LEMMA FiniteOpts ==
    ASSUME IsFiniteSet(instOpts), NEW h
    PROVE  IsFiniteSet(instOpts \cup {h}) /\ IsFiniteSet(instOpts \ {h})
BY FS_AddElement, FS_RemoveElement

LEMMA ListsStep ==
    ASSUME RouterType, ListsAgree, [Next]_vars PROVE ListsAgree'
<1>1. CASE UNCHANGED <<instAddrs, instIDs, instOpts, ConsHashList>>
  BY <1>1 DEF ListsAgree, Distinct, Elements
<1>2. ASSUME NEW h \in Insts, h \notin instAddrs,
             instAddrs' = instAddrs \cup {h}, instIDs' = Append(instIDs, h)
      PROVE  instIDs' \in Seq(Insts) /\ Distinct(instIDs') /\ Elements(instIDs') = instAddrs'
  BY <1>2, AppendElements DEF ListsAgree
<1>3. CASE RouterOnline
  <2>1. event.inst \in Insts
    BY <1>3 DEF RouterType, RouterOnline, Events, NoEvent, Insts
  <2>2. IsFiniteSet(instOpts') /\ ConsHashList' \in refreshConsHashList(instOpts')
    BY <1>3, FiniteOpts DEF RouterOnline, SetOpts, ListsAgree
  <2>3. instIDs' \in Seq(Insts) /\ Distinct(instIDs') /\ Elements(instIDs') = instAddrs'
    BY <1>2, <1>3, <2>1 DEF RouterOnline
  <2> QED
    BY <2>2, <2>3 DEF ListsAgree
<1>4. CASE RouterOffline
  <2>1. event.inst \in Elements(instIDs)
    BY <1>4 DEF ListsAgree, RouterOffline
  <2>2. IsFiniteSet(instOpts') /\ ConsHashList' \in refreshConsHashList(instOpts')
    BY <1>4, FiniteOpts DEF RouterOffline, SetOpts, ListsAgree
  <2>3. instIDs' \in Seq(Insts) /\ Distinct(instIDs') /\ Elements(instIDs') = instAddrs'
    BY <1>4, <2>1, RemoveFirstElements DEF ListsAgree, RouterOffline
  <2> QED
    BY <2>2, <2>3 DEF ListsAgree
<1>5. ASSUME NEW g \in Getters, NEW h \in Insts, AddInstsAddr(g, h) PROVE ListsAgree'
  <2>1. CASE h \in instAddrs
    BY <1>1, <1>5, <2>1 DEF AddInstsAddr
  <2>2. CASE h \notin instAddrs
    <3>1. instIDs' \in Seq(Insts) /\ Distinct(instIDs') /\ Elements(instIDs') = instAddrs'
      BY <1>2, <1>5, <2>2 DEF AddInstsAddr
    <3> QED
      BY <1>5, <3>1 DEF AddInstsAddr, ListsAgree
  <2> QED
    BY <2>1, <2>2
<1>6. ASSUME NEW g \in Getters, AddInstsOpts(g) PROVE ListsAgree'
  <2>1. IsFiniteSet(instOpts') /\ ConsHashList' \in refreshConsHashList(instOpts')
    BY <1>6, FiniteOpts DEF AddInstsOpts, SetOpts, ListsAgree
  <2> QED
    BY <1>6, <2>1 DEF AddInstsOpts, ListsAgree
<1> QED
  <2>1. CASE EventLoop
    BY <1>1, <1>3, <1>4, <2>1 DEF EventLoop, EventIgnored, RouterSyncAttr, CallWatchers, instVars
  <2>2. ASSUME NEW g \in Getters, GetStep(g) PROVE ListsAgree'
    BY <1>1, <1>5, <1>6, <2>2 DEF GetStep, GetNameRouter, GetLocalInsts, GetRemoteInsts,
       FindService, AddInstsAttr, GetDone, instVars
  <2>3. CASE \/ \E h \in Locals : RegisterLocal(h) \/ UnRegisterLocal(h)
             \/ \E h \in Locals, a \in Attrs : SetAttribute(h, a)
             \/ \E h \in Remotes : EventOnline(h) \/ EventOffline(h)
             \/ \E h \in Remotes, a \in Attrs : EventSyncAttr(h, a)
             \/ \E s \in {"Switching", "Ready"} : EventRouterUpdate(s)
    BY <1>1, <2>3 DEF RegisterLocal, UnRegisterLocal, SetAttribute, EventOnline, EventOffline,
       EventSyncAttr, EventRouterUpdate, instVars
  <2>4. ASSUME NEW w \in Watchers, WatchStep(w) PROVE ListsAgree'
    BY <1>1, <2>4 DEF WatchStep, Watch, WatchRead, WatchCall, UnWatch, instVars
  <2>5. CASE UNCHANGED vars
    BY <1>1, <2>5 DEF vars, instVars
  <2> QED
    BY <2>1, <2>2, <2>3, <2>4, <2>5 DEF Next

LEMMA InitLists ==
    ASSUME Init PROVE RouterType /\ ListsAgree
<1>1. RouterType
  BY DEF Init, RouterType, Values, Insts
<1>2. IsFiniteSet({}) /\ Cardinality({}) = 0
  BY FS_EmptySet
<1>3. << >> \in refreshConsHashList({})
  BY <1>2 DEF refreshConsHashList, SetToSeqs, IsSorted
<1>4. Elements(<< >>) = {} /\ Distinct(<< >>)
  BY DEF Elements, Distinct
<1> QED
  BY <1>1, <1>2, <1>3, <1>4 DEF Init, ListsAgree

\* The scan of ConsHashList finds the owner of every key, whatever the order in
\* which instances came and went and getters added them (router.go:171-185,
\* refreshConsHashList).
THEOREM HashOwnerIsFound == Spec => []HashOwnerIsOwner
<1>1. RouterType /\ ListsAgree => HashOwnerIsOwner
  <2> SUFFICES ASSUME RouterType, ListsAgree, instOpts # {}, NEW key \in 0 .. MaxKey
               PROVE  HashOwner(key) \in OwnerOf(key)
    BY DEF HashOwnerIsOwner
  <2>1. key \in Nat /\ instOpts \in SUBSET Insts
    BY RouterConstants DEF RouterType
  <2> QED
    BY <2>1, OwnerFound
<1> QED
  BY <1>1, InitLists, TypeStep, ListsStep, PTL DEF Spec

-----------------------------------------------------------------------------
(* Nothing is missing.                                                     *)

\* The event the loop works on.
LEMMA EventTypes ==
    ASSUME RouterType, EventLoop
    PROVE  event \in Events /\ event # NoEvent /\ event.inst \in Remotes
<1>1. event.stage \in {"router", "watchers"}
  BY DEF EventLoop, EventIgnored, RouterOnline, RouterOffline, RouterSyncAttr, CallWatchers
<1>2. event # NoEvent
  BY <1>1 DEF NoEvent
<1> QED
  BY <1>2 DEF RouterType, Events

\* Steps of the loop that hand the event over to the watchers.
LEMMA HandOver ==
    ASSUME RouterType, RouterOnline \/ RouterOffline \/ RouterSyncAttr
    PROVE  /\ event' # NoEvent /\ event'.stage = "watchers" /\ event'.kind = event.kind
           /\ event'.inst = event.inst /\ event'.wcopy = watchers
           /\ event.stage = "router"
<1>1. event \in Events
  BY EventTypes DEF EventLoop
<1>2. event' = [event EXCEPT !.stage = "watchers", !.wcopy = watchers]
  BY DEF RouterOnline, RouterOffline, RouterSyncAttr
<1> QED
  BY <1>1, <1>2 DEF Events, NoEvent, RouterOnline, RouterOffline, RouterSyncAttr

LEMMA MissingSame ==
    ASSUME MissingInv, UNCHANGED <<remote, router, instAddrs, event, pc, todo>>
    PROVE  MissingInv'
BY DEF MissingInv, Pending, Awaited

LEMMA MissingEvents ==
    ASSUME RouterType, MissingInv,
           NEW h \in Remotes,
           EventOnline(h) \/ EventOffline(h) \/ \E a \in Attrs : EventSyncAttr(h, a)
    PROVE  MissingInv'
<1> USE DEF MissingInv, Pending, Awaited, instVars, getVars
<1>1. CASE EventOnline(h)
  BY <1>1 DEF EventOnline, Event, NoEvent, RouterType
<1>2. CASE EventOffline(h)
  BY <1>2 DEF EventOffline, Event, NoEvent, RouterType
<1>3. ASSUME NEW a \in Attrs, EventSyncAttr(h, a) PROVE MissingInv'
  BY <1>3 DEF EventSyncAttr, Event, NoEvent, RouterType
<1> QED
  BY <1>1, <1>2, <1>3

LEMMA MissingLoop ==
    ASSUME RouterType, MissingInv, EventLoop PROVE MissingInv'
<1>1. event \in Events /\ event # NoEvent /\ event.inst \in Remotes
  BY EventTypes
<1> USE DEF MissingInv, Pending, Awaited, svcVars, instVars, getVars
<1>2. CASE EventIgnored
  BY <1>1, <1>2 DEF EventIgnored, RouterType
<1>3. CASE RouterOnline
  BY <1>1, <1>3, HandOver DEF RouterOnline, RouterType
<1>4. CASE RouterOffline
  BY <1>1, <1>4, HandOver DEF RouterOffline, RouterType
<1>5. CASE RouterSyncAttr
  BY <1>1, <1>5, HandOver DEF RouterSyncAttr, RouterType
<1>6. CASE CallWatchers
  BY <1>1, <1>6 DEF CallWatchers, RouterType
<1> QED
  BY <1>2, <1>3, <1>4, <1>5, <1>6 DEF EventLoop

LEMMA MissingGet ==
    ASSUME RouterType, MissingInv, NEW g \in Getters, GetStep(g) PROVE MissingInv'
<1> USE DEF MissingInv, Pending, Awaited, svcVars, instVars, RouterType, Goto
<1>1. CASE GetNameRouter(g)
  BY <1>1 DEF GetNameRouter
<1>2. CASE GetLocalInsts(g)
  BY <1>2 DEF GetLocalInsts
<1>3. CASE GetRemoteInsts(g)
  BY <1>3 DEF GetRemoteInsts
<1>4. ASSUME NEW h \in Insts, AddInstsAddr(g, h) PROVE MissingInv'
  BY <1>4 DEF AddInstsAddr
<1>5. CASE FindService(g)
  BY <1>5 DEF FindService
<1>6. CASE AddInstsOpts(g)
  BY <1>6 DEF AddInstsOpts
<1>7. CASE AddInstsAttr(g)
  BY <1>7 DEF AddInstsAttr
<1>8. CASE GetDone(g)
  BY <1>8 DEF GetDone
<1> QED
  BY <1>1, <1>2, <1>3, <1>4, <1>5, <1>6, <1>7, <1>8 DEF GetStep

LEMMA MissingStep ==
    ASSUME RouterType, MissingInv, [Next]_vars PROVE MissingInv'
<1>1. ASSUME NEW h \in Locals, RegisterLocal(h) \/ UnRegisterLocal(h) PROVE MissingInv'
  BY <1>1, MissingSame DEF RegisterLocal, UnRegisterLocal, instVars, getVars
<1>2. ASSUME NEW h \in Locals, NEW a \in Attrs, SetAttribute(h, a) PROVE MissingInv'
  BY <1>2, MissingSame DEF SetAttribute, getVars
<1>3. ASSUME NEW h \in Remotes, EventOnline(h) \/ EventOffline(h) PROVE MissingInv'
  BY <1>3, MissingEvents
<1>4. ASSUME NEW h \in Remotes, NEW a \in Attrs, EventSyncAttr(h, a) PROVE MissingInv'
  BY <1>4, MissingEvents
<1>5. ASSUME NEW s \in {"Switching", "Ready"}, EventRouterUpdate(s) PROVE MissingInv'
  BY <1>5, MissingSame DEF EventRouterUpdate, svcVars, instVars, getVars
<1>6. ASSUME NEW w \in Watchers, WatchStep(w) PROVE MissingInv'
  BY <1>6, MissingSame DEF WatchStep, Watch, WatchRead, WatchCall, UnWatch, svcVars, instVars,
     getVars
<1>7. CASE UNCHANGED vars
  BY <1>7, MissingSame DEF vars, svcVars, instVars, getVars
<1> QED
  BY <1>1, <1>2, <1>3, <1>4, <1>5, <1>6, <1>7, MissingLoop, MissingGet DEF Next

\* Once the router is known no online service of another process is missing from
\* it when the loop and the getters are done: what GetNameRouter did not find the
\* event loop adds (server.go:219-231, 429-466).
THEOREM NothingIsMissing == Spec => []NoneMissing
<1>1. Init => RouterType /\ MissingInv
  <2> SUFFICES ASSUME Init PROVE RouterType /\ MissingInv
    OBVIOUS
  <2> QED
    BY InitLists DEF Init, MissingInv, Pending
<1>2. RouterType /\ MissingInv => NoneMissing
  BY DEF RouterType, MissingInv, NoneMissing, Quiet, Pending, Awaited
<1> QED
  BY <1>1, <1>2, TypeStep, MissingStep, PTL DEF Spec

-----------------------------------------------------------------------------
(* The router agrees with the sidecar.                                     *)

LEMMA AgreeLocal ==
    ASSUME RouterType, AgreeInv, NEW h \in Locals,
           RegisterLocal(h) \/ UnRegisterLocal(h) \/ \E a \in Attrs : SetAttribute(h, a)
    PROVE  AgreeInv'
<1>1. h \notin Remotes /\ remote \subseteq Remotes /\ h \in Insts
  BY RouterConstants DEF RouterType, Insts
<1>2. UNCHANGED <<remote, router, instAddrs, instOpts, event, pc, todo, cur, hold>>
  BY DEF RegisterLocal, UnRegisterLocal, SetAttribute, instVars, getVars
<1>3. \A k \in Remotes : attr'[k] = attr[k] /\ instAttrs'[k] = instAttrs[k]
  BY <1>1 DEF RegisterLocal, UnRegisterLocal, SetAttribute, instVars, RouterType, Insts
<1>4. Subsets'
  BY <1>1, <1>2, <1>3 DEF AgreeInv, Subsets
<1>5. Online'
  BY <1>1, <1>2, <1>3 DEF AgreeInv, Online, Holds, Pending
<1>6. AttrsRead'
  BY <1>1, <1>2, <1>3 DEF AgreeInv, AttrsRead, Pending
<1>7. OptsKnown' /\ AttrsKnown'
  BY <1>1, <1>2, <1>3 DEF AgreeInv, OptsKnown, AttrsKnown, Pending, Comes, Awaited
<1> QED
  BY <1>4, <1>5, <1>6, <1>7 DEF AgreeInv

LEMMA AgreeSame ==
    ASSUME AgreeInv,
           UNCHANGED <<svcVars, instVars, event, getVars>>
    PROVE  AgreeInv'
BY DEF AgreeInv, Subsets, Online, AttrsRead, OptsKnown, AttrsKnown, Holds, Pending, Comes,
   Awaited, svcVars, instVars, getVars

LEMMA AgreeEvents ==
    ASSUME RouterType, AgreeInv, NEW h \in Remotes,
           EventOnline(h) \/ EventOffline(h) \/ \E a \in Attrs : EventSyncAttr(h, a)
    PROVE  AgreeInv'
<1> USE DEF instVars, getVars
<1>0. h \in Insts /\ event = NoEvent
  BY DEF Insts, EventOnline, EventOffline, EventSyncAttr
<1>1. CASE EventOnline(h)
  <2>1. Subsets'
    BY <1>1 DEF EventOnline, AgreeInv, Subsets
  <2>2. Online'
    BY <1>0, <1>1 DEF EventOnline, AgreeInv, Online, Holds, Pending
  <2>3. AttrsRead'
    BY <1>0, <1>1 DEF EventOnline, AgreeInv, Online, Holds, AttrsRead, Pending, Event, RouterType
  <2>4. OptsKnown'
    BY <1>0, <1>1 DEF EventOnline, AgreeInv, Online, OptsKnown, Pending, Comes, Awaited
  <2>5. AttrsKnown'
    BY <1>0, <1>1 DEF EventOnline, AgreeInv, Subsets, Online, AttrsKnown, Pending, Comes, Awaited,
       RouterType
  <2> QED
    BY <2>1, <2>2, <2>3, <2>4, <2>5 DEF AgreeInv
<1>2. CASE EventOffline(h)
  <2>1. Subsets'
    BY <1>2 DEF EventOffline, AgreeInv, Subsets
  <2>2. Online'
    BY <1>0, <1>2 DEF EventOffline, AgreeInv, Online, Holds, Pending, Event, NoEvent
  <2>3. AttrsRead'
    BY <1>0, <1>2 DEF EventOffline, AgreeInv, AttrsRead, Pending, Event
  <2>4. OptsKnown'
    BY <1>0, <1>2 DEF EventOffline, AgreeInv, OptsKnown, Pending, Comes, Awaited
  <2>5. AttrsKnown'
    BY <1>0, <1>2 DEF EventOffline, AgreeInv, AttrsKnown, Pending, Comes, Awaited
  <2> QED
    BY <2>1, <2>2, <2>3, <2>4, <2>5 DEF AgreeInv
<1>3. ASSUME NEW a \in Attrs, EventSyncAttr(h, a) PROVE AgreeInv'
  <2>1. Subsets'
    BY <1>3 DEF EventSyncAttr, AgreeInv, Subsets
  <2>2. Online'
    BY <1>0, <1>3 DEF EventSyncAttr, AgreeInv, Online, Holds, Pending
  <2>3. AttrsRead'
    BY <1>0, <1>3 DEF EventSyncAttr, AgreeInv, AttrsRead, Pending, Event, NoEvent, RouterType
  <2>4. OptsKnown'
    BY <1>0, <1>3 DEF EventSyncAttr, AgreeInv, OptsKnown, Pending, Comes, Awaited
  <2>5. AttrsKnown'
    BY <1>0, <1>3 DEF EventSyncAttr, AgreeInv, AttrsKnown, Pending, Comes, Awaited, Event,
       NoEvent, RouterType
  <2> QED
    BY <2>1, <2>2, <2>3, <2>4, <2>5 DEF AgreeInv
<1> QED
  BY <1>1, <1>2, <1>3

LEMMA AgreeLoop ==
    ASSUME RouterType, MissingInv, AgreeInv, EventLoop, ~ crossed' PROVE AgreeInv'
<1>0. event \in Events /\ event # NoEvent /\ event.inst \in Remotes
  BY EventTypes
<1>1. event.inst \in Insts /\ UNCHANGED <<svcVars, getVars>>
  BY <1>0 DEF Insts, EventLoop, EventIgnored, RouterOnline, RouterOffline, RouterSyncAttr,
     CallWatchers
<1>2. event.stage = "router" /\ event.kind # "online" => \A g \in Getters : ~ Holds(g, event.inst)
  BY <1>0 DEF EventLoop, EventIgnored, RouterOnline, RouterOffline, RouterSyncAttr, CallWatchers,
     EventCrosses, GetterCrosses
<1> USE DEF svcVars, instVars, getVars
<1>3. CASE EventIgnored
  <2>1. Subsets'
    BY <1>1, <1>3 DEF EventIgnored, AgreeInv, Subsets
  <2>2. Online'
    BY <1>0, <1>1, <1>2, <1>3 DEF EventIgnored, AgreeInv, MissingInv, Online, Holds, Pending
  <2>3. AttrsRead'
    BY <1>0, <1>1, <1>2, <1>3 DEF EventIgnored, AgreeInv, AttrsRead, Holds, Pending
  <2>4. OptsKnown'
    BY <1>1, <1>3 DEF EventIgnored, AgreeInv, OptsKnown, Comes, Awaited
  <2>5. AttrsKnown'
    BY <1>0, <1>1, <1>3 DEF EventIgnored, MissingInv, AgreeInv, AttrsKnown, Pending, Comes, Awaited
  <2> QED
    BY <2>1, <2>2, <2>3, <2>4, <2>5 DEF AgreeInv
<1>4. CASE RouterOnline
  <2>1. Subsets'
    BY <1>1, <1>4 DEF RouterOnline, SetOpts, AgreeInv, Subsets
  <2>2. Online'
    BY <1>0, <1>1, <1>4, HandOver DEF RouterOnline, MissingInv, AgreeInv, Online, Holds,
       Pending
  <2>3. AttrsRead'
    BY <1>0, <1>1, <1>4, HandOver DEF RouterOnline, AgreeInv, AttrsRead, Pending
  <2>4. OptsKnown'
    BY <1>1, <1>4 DEF RouterOnline, SetOpts, AgreeInv, OptsKnown, Comes, Awaited
  <2>5. AttrsKnown'
    BY <1>0, <1>1, <1>4, HandOver DEF RouterOnline, AgreeInv, AttrsKnown, Pending, Comes, Awaited
  <2> QED
    BY <2>1, <2>2, <2>3, <2>4, <2>5 DEF AgreeInv
<1>5. CASE RouterOffline
  <2>0. event.inst \notin remote
    BY <1>0, <1>5 DEF RouterOffline, MissingInv, Pending
  <2>1. Subsets'
    BY <1>1, <1>2, <1>5 DEF RouterOffline, SetOpts, AgreeInv, Subsets, Holds, RouterType
  <2>2. Online'
    BY <1>0, <1>1, <1>2, <1>5, HandOver DEF RouterOffline, AgreeInv, Online, Holds, Pending
  <2>3. AttrsRead'
    BY <1>0, <1>1, <1>5, HandOver DEF RouterOffline, AgreeInv, AttrsRead, Pending
  <2>4. OptsKnown'
    BY <1>1, <1>5, <2>0 DEF RouterOffline, SetOpts, AgreeInv, OptsKnown, Comes, Awaited
  <2>5. AttrsKnown'
    BY <1>0, <1>1, <1>5, <2>0, HandOver DEF RouterOffline, AgreeInv, AttrsKnown, Pending, Comes,
       Awaited, RouterType
  <2> QED
    BY <2>1, <2>2, <2>3, <2>4, <2>5 DEF AgreeInv
<1>6. CASE RouterSyncAttr
  <2>1. Subsets'
    BY <1>1, <1>6 DEF RouterSyncAttr, AgreeInv, Subsets, RouterType
  <2>2. Online'
    BY <1>0, <1>1, <1>6, HandOver DEF RouterSyncAttr, AgreeInv, Online, Holds, Pending
  <2>3. AttrsRead'
    BY <1>0, <1>1, <1>2, <1>6, HandOver DEF RouterSyncAttr, AgreeInv, AttrsRead, Holds, Pending
  <2>4. OptsKnown'
    BY <1>1, <1>6 DEF RouterSyncAttr, AgreeInv, OptsKnown, Comes, Awaited
  <2>5. AttrsKnown'
    BY <1>0, <1>1, <1>6, HandOver DEF RouterSyncAttr, AgreeInv, AttrsRead, AttrsKnown, Pending,
       Comes, Awaited, RouterType
  <2> QED
    BY <2>1, <2>2, <2>3, <2>4, <2>5 DEF AgreeInv
<1>7. CASE CallWatchers
  <2>1. Subsets' /\ OptsKnown'
    BY <1>1, <1>7 DEF CallWatchers, AgreeInv, Subsets, OptsKnown, Comes, Awaited
  <2>2. Online'
    BY <1>0, <1>1, <1>7 DEF CallWatchers, AgreeInv, Online, Holds, Pending
  <2>3. AttrsRead'
    BY <1>0, <1>1, <1>7 DEF CallWatchers, AgreeInv, AttrsRead, Pending
  <2>4. AttrsKnown'
    BY <1>0, <1>1, <1>7 DEF CallWatchers, AgreeInv, AttrsKnown, Pending, Comes, Awaited
  <2> QED
    BY <2>1, <2>2, <2>3, <2>4 DEF AgreeInv
<1> QED
  BY <1>3, <1>4, <1>5, <1>6, <1>7 DEF EventLoop

LEMMA AgreeGet ==
    ASSUME RouterType, MissingInv, AgreeInv, NEW g \in Getters, GetStep(g) PROVE AgreeInv'
<1>0. UNCHANGED <<svcVars, event>>
  BY DEF GetStep, GetNameRouter, GetLocalInsts, GetRemoteInsts, AddInstsAddr, FindService,
     AddInstsOpts, AddInstsAttr, GetDone
<1> USE DEF svcVars, instVars, RouterType, Goto
<1>1. CASE GetNameRouter(g)
  <2>1. Subsets'
    BY <1>1 DEF GetNameRouter, AgreeInv, Subsets
  <2>2. Online' /\ AttrsRead'
    BY <1>0, <1>1 DEF GetNameRouter, AgreeInv, Online, AttrsRead, Holds, Pending
  <2>3. OptsKnown' /\ AttrsKnown'
    BY <1>0, <1>1 DEF GetNameRouter, AgreeInv, OptsKnown, AttrsKnown, Comes, Awaited
  <2> QED
    BY <2>1, <2>2, <2>3 DEF AgreeInv
<1>2. CASE GetLocalInsts(g)
  <2>1. Subsets'
    BY <1>2 DEF GetLocalInsts, AgreeInv, Subsets
  <2>2. Online' /\ AttrsRead'
    BY <1>0, <1>2, RouterConstants DEF GetLocalInsts, AgreeInv, Online, AttrsRead, Holds, Pending
  <2>3. OptsKnown' /\ AttrsKnown'
    BY <1>0, <1>2 DEF GetLocalInsts, AgreeInv, OptsKnown, AttrsKnown, Comes, Awaited
  <2> QED
    BY <2>1, <2>2, <2>3 DEF AgreeInv
<1>3. CASE GetRemoteInsts(g)
  <2>1. Subsets'
    BY <1>3 DEF GetRemoteInsts, AgreeInv, Subsets
  <2>2. Online' /\ AttrsRead'
    BY <1>0, <1>3 DEF GetRemoteInsts, AgreeInv, Online, AttrsRead, Holds, Pending
  <2>3. \A h \in remote : Comes(h)'
    BY <1>3 DEF GetRemoteInsts, Comes, Awaited
  <2>4. OptsKnown' /\ AttrsKnown'
    BY <1>0, <2>3 DEF OptsKnown, AttrsKnown
  <2> QED
    BY <2>1, <2>2, <2>4 DEF AgreeInv
<1>4. ASSUME NEW h \in Insts, AddInstsAddr(g, h) PROVE AgreeInv'
  <2>1. Subsets'
    BY <1>4 DEF AddInstsAddr, AgreeInv, Subsets
  <2>2. Online'
    BY <1>0, <1>4 DEF AddInstsAddr, AgreeInv, Online, Holds, Pending
  <2>3. AttrsRead'
    BY <1>0, <1>4 DEF AddInstsAddr, AgreeInv, AttrsRead, Pending
  <2>4. Comes(h)' /\ \A k \in Insts : Comes(k) => Comes(k)'
    BY <1>4 DEF AddInstsAddr, Comes, Awaited
  <2>5. OptsKnown'
    BY <1>0, <1>4, <2>4 DEF AddInstsAddr, AgreeInv, OptsKnown, Insts
  <2>6. AttrsKnown'
    <3>1. ASSUME NEW k \in Getters, pc[k] = "attr" PROVE pc'[k] = "attr" /\ cur'[k] = cur[k]
      BY <1>4, <3>1 DEF AddInstsAddr
    <3> QED
      BY <1>0, <1>4, <2>4, <3>1 DEF AddInstsAddr, AgreeInv, AttrsKnown, Pending, Insts
  <2> QED
    BY <2>1, <2>2, <2>3, <2>5, <2>6 DEF AgreeInv
<1>5. CASE FindService(g)
  <2>1. Subsets'
    BY <1>5 DEF FindService, AgreeInv, Subsets
  <2>2. Online' /\ AttrsRead'
    BY <1>0, <1>5 DEF FindService, AgreeInv, Online, AttrsRead, Holds, Pending
  <2>3. \A k \in remote : Comes(k) => Comes(k)'
    BY <1>5 DEF FindService, Comes, Awaited
  <2>4. OptsKnown'
    BY <1>0, <1>5, <2>3 DEF FindService, AgreeInv, OptsKnown
  <2>5. AttrsKnown'
    <3>1. ASSUME NEW k \in Getters, pc[k] = "attr" PROVE pc'[k] = "attr" /\ cur'[k] = cur[k]
      BY <1>5, <3>1 DEF FindService
    <3> QED
      BY <1>0, <1>5, <2>3, <3>1 DEF FindService, AgreeInv, AttrsKnown, Pending
  <2> QED
    BY <2>1, <2>2, <2>4, <2>5 DEF AgreeInv
<1>6. CASE AddInstsOpts(g)
  <2>1. Subsets'
    BY <1>6 DEF AddInstsOpts, SetOpts, AgreeInv, Subsets
  <2>2. Online' /\ AttrsRead'
    BY <1>0, <1>6 DEF AddInstsOpts, AgreeInv, Online, AttrsRead, Holds, Pending
  <2>3. \A k \in remote : k # cur[g] /\ Comes(k) => Comes(k)'
    BY <1>6 DEF AddInstsOpts, Comes, Awaited
  <2>4. OptsKnown'
    BY <1>0, <1>6, <2>3 DEF AddInstsOpts, SetOpts, AgreeInv, OptsKnown
  <2>5. AttrsKnown'
    <3>1. pc'[g] = "attr" /\ cur' = cur
      BY <1>6 DEF AddInstsOpts
    <3>2. ASSUME NEW k \in Getters, pc[k] = "attr" PROVE pc'[k] = "attr"
      BY <1>6, <3>2 DEF AddInstsOpts
    <3> QED
      BY <1>0, <1>6, <2>3, <3>1, <3>2 DEF AddInstsOpts, AgreeInv, AttrsKnown, Pending
  <2> QED
    BY <2>1, <2>2, <2>4, <2>5 DEF AgreeInv
<1>7. CASE AddInstsAttr(g)
  <2>1. Subsets'
    BY <1>7 DEF AddInstsAttr, AgreeInv, Subsets
  <2>2. Online' /\ AttrsRead'
    BY <1>0, <1>7 DEF AddInstsAttr, AgreeInv, Online, AttrsRead, Holds, Pending
  <2>3. \A k \in remote : Comes(k) => Comes(k)'
    BY <1>7 DEF AddInstsAttr, Comes, Awaited
  <2>4. OptsKnown'
    BY <1>0, <1>7, <2>3 DEF AddInstsAttr, AgreeInv, OptsKnown
  <2>5. AttrsKnown'
    <3>1. cur' = cur /\ \A k \in Getters : k # g => pc'[k] = pc[k]
      BY <1>7 DEF AddInstsAttr
    <3>2. ASSUME NEW k \in remote
          PROVE  instAttrs'[k] = IF k = cur[g] THEN hold[g] ELSE instAttrs[k]
      BY <1>7 DEF AddInstsAttr, Insts
    <3> QED
      BY <1>0, <1>7, <2>3, <3>1, <3>2 DEF AddInstsAttr, AgreeInv, AttrsKnown, AttrsRead, Pending
  <2> QED
    BY <2>1, <2>2, <2>4, <2>5 DEF AgreeInv
<1>8. CASE GetDone(g)
  <2>1. Subsets'
    BY <1>8 DEF GetDone, AgreeInv, Subsets
  <2>2. Online' /\ AttrsRead'
    BY <1>0, <1>8 DEF GetDone, AgreeInv, Online, AttrsRead, Holds, Pending
  <2>3. OptsKnown' /\ AttrsKnown'
    BY <1>0, <1>8 DEF GetDone, AgreeInv, OptsKnown, AttrsKnown, Comes, Awaited, Pending
  <2> QED
    BY <2>1, <2>2, <2>3 DEF AgreeInv
<1> QED
  BY <1>1, <1>2, <1>3, <1>4, <1>5, <1>6, <1>7, <1>8 DEF GetStep

LEMMA NeverUncrossed ==
    ASSUME [Next]_vars, ~ crossed' PROVE ~ crossed
BY DEF Next, RegisterLocal, UnRegisterLocal, SetAttribute, EventOnline, EventOffline,
   EventSyncAttr, EventRouterUpdate, EventLoop, EventIgnored, RouterOnline, RouterOffline,
   RouterSyncAttr, CallWatchers, GetStep, GetNameRouter, GetLocalInsts, GetRemoteInsts,
   AddInstsAddr, FindService, AddInstsOpts, AddInstsAttr, GetDone, WatchStep, Watch, WatchRead,
   WatchCall, UnWatch, vars

LEMMA AgreeStep ==
    ASSUME RouterType, MissingInv, ~ crossed => AgreeInv, [Next]_vars
    PROVE  ~ crossed' => AgreeInv'
<1> SUFFICES ASSUME ~ crossed' PROVE AgreeInv'
  OBVIOUS
<1>1. AgreeInv
  BY NeverUncrossed
<1>2. ASSUME NEW s \in {"Switching", "Ready"}, EventRouterUpdate(s) PROVE AgreeInv'
  BY <1>1, <1>2, AgreeSame DEF EventRouterUpdate
<1>3. ASSUME NEW w \in Watchers, WatchStep(w) PROVE AgreeInv'
  BY <1>1, <1>3, AgreeSame DEF WatchStep, Watch, WatchRead, WatchCall, UnWatch
<1>4. CASE UNCHANGED vars
  BY <1>1, <1>4, AgreeSame DEF vars
<1> QED
  BY <1>1, <1>2, <1>3, <1>4, AgreeLocal, AgreeEvents, AgreeLoop, AgreeGet DEF Next

LEMMA InitAgrees == Init => RouterInv /\ QuietInv
<1> SUFFICES ASSUME Init PROVE RouterInv /\ QuietInv
  OBVIOUS
<1>1. RouterType /\ ListsAgree
  BY InitLists
<1>2. MissingInv
  BY DEF Init, MissingInv, Pending
<1>3. Subsets /\ Online /\ AttrsRead /\ OptsKnown /\ AttrsKnown
  BY DEF Init, Subsets, Online, AttrsRead, OptsKnown, AttrsKnown, Pending, Holds, Insts
<1> QED
  BY <1>1, <1>2, <1>3 DEF RouterInv, QuietInv, AgreeInv

LEMMA AgreeInductive == RouterInv /\ QuietInv /\ [Next]_vars => RouterInv' /\ QuietInv'
BY TypeStep, ListsStep, MissingStep, AgreeStep DEF RouterInv, QuietInv

\* Where the selections take their instance from.
LEMMA SelectionsFrom ==
    ASSUME RouterType, ListsAgree, NEW key \in Nat
    PROVE  /\ SelectRouterByConsistentHash(key) \in instOpts \cup {NoInst}
           /\ SelectRouterByModHash(key) \in instAddrs \cup {NoInst}
           /\ SelectRouterByQuality \subseteq instAddrs \cup {NoInst}
<1>1. ASSUME ConsHashList # << >> PROVE HashOwner(key) \in instOpts
  <2>1. ConsHashList \in Seq(instOpts) /\ Elements(ConsHashList) = instOpts
    BY SortedList DEF ListsAgree
  <2>2. instOpts # {}
    BY <1>1, <2>1 DEF Elements
  <2>3. HashOwner(key) \in OwnerOf(key)
    BY <2>2, OwnerFound DEF RouterType
  <2>4. OwnerOf(key) \subseteq instOpts
    BY DEF OwnerOf
  <2> QED
    BY <2>3, <2>4
<1>2. SelectRouterByConsistentHash(key) \in instOpts \cup {NoInst}
  BY <1>1 DEF SelectRouterByConsistentHash
<1>3. ASSUME instIDs # << >>
      PROVE  \A i \in 1 .. Len(instIDs) : instIDs[i] \in instAddrs
  BY DEF ListsAgree, Elements
<1>4. ASSUME instIDs # << >>
      PROVE  (key % Len(instIDs)) + 1 \in 1 .. Len(instIDs) /\ 1 \in 1 .. Len(instIDs)
  <2>1. Len(instIDs) \in Nat /\ Len(instIDs) > 0
    BY <1>4 DEF ListsAgree
  <2>2. key % Len(instIDs) \in 0 .. Len(instIDs) - 1
    BY <2>1
  <2> QED
    BY <2>1, <2>2
<1>5. SelectRouterByModHash(key) \in instAddrs \cup {NoInst}
  BY <1>3, <1>4 DEF SelectRouterByModHash, Selectable
<1>6. SelectRouterByQuality \subseteq instAddrs \cup {NoInst}
  BY <1>3, <1>4 DEF SelectRouterByQuality, Selectable
<1> QED
  BY <1>2, <1>5, <1>6

\* Unless an event has crossed a GetNameRouter or a Watch, the router has, when
\* all are done, exactly the services the sidecar has, with their hash keys and
\* attributes, and no selection gives an instance of another process that is gone
\* (router.go:42-230, server.go:219-231).
THEOREM RouterIsUpToDate == Spec => []RouterAgrees
<1>1. RouterInv /\ QuietInv => RouterAgrees
  <2> SUFFICES ASSUME RouterInv, QuietInv, Quiet, router, ~ crossed
               PROVE  /\ instAddrs \cap Remotes = remote
                      /\ instOpts \cap Remotes = remote
                      /\ \A h \in remote : instAttrs[h] = attr[h]
                      /\ \A key \in 0 .. MaxKey :
                            {SelectRouterByConsistentHash(key), SelectRouterByModHash(key)} \cup
                                SelectRouterByQuality \subseteq remote \cup Locals \cup {NoInst}
    BY DEF RouterAgrees
  <2>1. RouterType /\ ListsAgree /\ MissingInv /\ AgreeInv
    BY DEF RouterInv, QuietInv
  <2>2. \A h \in Remotes, s \in {"router", "watchers"}, k \in {"online", "offline", "attr"} :
            ~ Pending(s, k, h)
    BY DEF Quiet, Pending
  <2>3. remote \subseteq Remotes /\ \A h \in remote : ~ Comes(h)
    BY <2>1 DEF RouterType, MissingInv, Quiet, Comes, Awaited
  <2>4. instAddrs \cap Remotes = remote
    BY <2>1, <2>2, <2>3 DEF MissingInv, AgreeInv, Online, Comes
  <2>5. instOpts \cap Remotes = remote
    BY <2>1, <2>3, <2>4 DEF AgreeInv, Subsets, OptsKnown
  <2>6. \A h \in remote : instAttrs[h] = attr[h]
    BY <2>1, <2>2, <2>3 DEF AgreeInv, AttrsKnown, Quiet
  <2>7. instAddrs \subseteq remote \cup Locals /\ instOpts \subseteq remote \cup Locals
    BY <2>1, <2>4, <2>5 DEF RouterType, Insts
  <2>8. ASSUME NEW key \in 0 .. MaxKey
        PROVE  {SelectRouterByConsistentHash(key), SelectRouterByModHash(key)} \cup
                   SelectRouterByQuality \subseteq remote \cup Locals \cup {NoInst}
    <3>1. key \in Nat
      BY RouterConstants
    <3> QED
      BY <2>1, <2>7, <3>1, SelectionsFrom
  <2> QED
    BY <2>4, <2>5, <2>6, <2>8
<1> QED
  BY <1>1, InitAgrees, AgreeInductive, PTL DEF Spec

-----------------------------------------------------------------------------
(* The watchers agree with the router.                                     *)

LEMMA ViewSame ==
    ASSUME ViewInv, UNCHANGED <<instAddrs, event, watchVars>> PROVE ViewInv'
BY DEF ViewInv, Pending, Call, watchVars

LEMMA ViewEvents ==
    ASSUME RouterType, ViewInv, NEW h \in Remotes,
           EventOnline(h) \/ EventOffline(h) \/ \E a \in Attrs : EventSyncAttr(h, a)
    PROVE  ViewInv'
<1>1. event = NoEvent /\ UNCHANGED <<instAddrs, watchVars>>
  BY DEF EventOnline, EventOffline, EventSyncAttr, instVars
<1>2. event' # NoEvent /\ event'.stage = "router" /\ event'.wcopy = {}
  BY DEF EventOnline, EventOffline, EventSyncAttr, Event, NoEvent
<1> QED
  BY <1>1, <1>2 DEF ViewInv, Pending, Call, watchVars

LEMMA ViewLoop ==
    ASSUME RouterType, MissingInv, AgreeInv, ViewInv, EventLoop, ~ crossed' PROVE ViewInv'
<1>0. event \in Events /\ event # NoEvent /\ event.inst \in Remotes
  BY EventTypes
<1>1. CASE EventIgnored
  BY <1>0, <1>1 DEF EventIgnored, ViewInv, Pending, Call, instVars, watchVars
<1>2. CASE RouterOnline
  <2>1. \A w \in Watchers : wpc[w] # "call"
    BY <1>2 DEF RouterOnline, EventCrosses
  <2> QED
    BY <1>0, <1>2, <2>1, HandOver DEF RouterOnline, ViewInv, Pending, Call, watchVars, RouterType
<1>3. CASE RouterOffline
  <2>1. \A w \in Watchers : wpc[w] # "call"
    BY <1>3 DEF RouterOffline, EventCrosses
  <2> QED
    BY <1>0, <1>3, <2>1, HandOver DEF RouterOffline, ViewInv, Pending, Call, watchVars, RouterType
<1>4. CASE RouterSyncAttr
  BY <1>0, <1>4, HandOver DEF RouterSyncAttr, ViewInv, Pending, Call, watchVars, RouterType
<1>5. CASE CallWatchers
  <2>1. event.kind = "offline" => event.inst \notin instAddrs
    BY <1>0, <1>5 DEF CallWatchers, MissingInv, AgreeInv, Online, Pending
  <2>2. event.kind = "online" => event.inst \in instAddrs
    BY <1>0, <1>5 DEF CallWatchers, ViewInv, Pending
  <2>3. event' = NoEvent /\ UNCHANGED <<instAddrs, watchers, wpc, wtodo>>
    BY <1>5 DEF CallWatchers, instVars
  <2>4. ASSUME NEW w \in Watchers, w \notin event.wcopy PROVE view'[w] = view[w]
    BY <1>5, <2>4 DEF CallWatchers
  <2>5. ASSUME NEW w \in Watchers, w \in event.wcopy
        PROVE  view'[w] = IF event.kind = "online" THEN view[w] \cup {event.inst}
                          ELSE IF event.kind = "offline" THEN view[w] \ {event.inst}
                          ELSE view[w]
    BY <1>5, <2>5 DEF CallWatchers
  <2> QED
    BY <1>0, <1>5, <2>1, <2>2, <2>3, <2>4, <2>5 DEF CallWatchers, ViewInv, Pending, Call, RouterType
<1> QED
  BY <1>1, <1>2, <1>3, <1>4, <1>5 DEF EventLoop

LEMMA ViewGet ==
    ASSUME RouterType, ViewInv, NEW g \in Getters, GetStep(g), ~ crossed' PROVE ViewInv'
<1>1. ASSUME NEW h \in Insts, AddInstsAddr(g, h) PROVE ViewInv'
  <2>1. h \in instAddrs \/ watchers = {}
    BY <1>1 DEF AddInstsAddr
  <2> QED
    BY <1>1, <2>1 DEF AddInstsAddr, ViewInv, Pending, Call, watchVars
<1> QED
  BY <1>1, ViewSame DEF GetStep, GetNameRouter, GetLocalInsts, GetRemoteInsts, FindService,
     AddInstsOpts, AddInstsAttr, GetDone, instVars

LEMMA ViewWatch ==
    ASSUME RouterType, ViewInv, NEW w \in Watchers, WatchStep(w) PROVE ViewInv'
<1> USE DEF ViewInv, Pending, Call, instVars, RouterType
<1>1. CASE Watch(w)
  BY <1>1 DEF Watch
<1>2. CASE WatchRead(w)
  BY <1>2 DEF WatchRead
<1>3. CASE WatchCall(w)
  BY <1>3 DEF WatchCall
<1>4. CASE UnWatch(w)
  BY <1>4 DEF UnWatch
<1> QED
  BY <1>1, <1>2, <1>3, <1>4 DEF WatchStep

LEMMA ViewStep ==
    ASSUME RouterType, MissingInv, ~ crossed => AgreeInv /\ ViewInv, [Next]_vars
    PROVE  ~ crossed' => ViewInv'
<1> SUFFICES ASSUME ~ crossed' PROVE ViewInv'
  OBVIOUS
<1>1. AgreeInv /\ ViewInv
  BY NeverUncrossed
<1>2. ASSUME NEW h \in Locals, NEW a, RegisterLocal(h) \/ UnRegisterLocal(h) \/ SetAttribute(h, a)
      PROVE  ViewInv'
  BY <1>1, <1>2, ViewSame DEF RegisterLocal, UnRegisterLocal, SetAttribute, instVars
<1>3. ASSUME NEW s, EventRouterUpdate(s) PROVE ViewInv'
  BY <1>1, <1>3, ViewSame DEF EventRouterUpdate, instVars
<1>4. CASE UNCHANGED vars
  BY <1>1, <1>4, ViewSame DEF vars, instVars
<1> QED
  BY <1>1, <1>2, <1>3, <1>4, ViewEvents, ViewLoop, ViewGet, ViewWatch DEF Next

\* With the same exception, what a watcher was told of is what the router has,
\* although the watchers are called outside the lock and Watch reads without it
\* (router.go:27-40, 80-147).
THEOREM WatchersAreUpToDate == Spec => []WatcherAgrees
<1>1. Init => RouterInv /\ QuietInv /\ WatchInv
  <2> SUFFICES ASSUME Init PROVE RouterInv /\ QuietInv /\ WatchInv
    OBVIOUS
  <2>1. ViewInv
    BY DEF Init, ViewInv, Pending, Call
  <2> QED
    BY <2>1, InitAgrees DEF WatchInv
<1>2. RouterInv /\ WatchInv => WatcherAgrees
  <2> SUFFICES ASSUME RouterInv, ViewInv, Quiet, NEW w \in watchers, NEW h \in Remotes
               PROVE  h \in view[w] <=> h \in instAddrs
    BY DEF WatchInv, WatcherAgrees
  <2> QED
    BY DEF RouterInv, RouterType, ViewInv, Quiet, Pending, Call
<1>3. RouterInv /\ QuietInv /\ WatchInv /\ [Next]_vars => WatchInv'
  BY ViewStep DEF RouterInv, QuietInv, WatchInv
<1> QED
  BY <1>1, <1>2, <1>3, AgreeInductive, PTL DEF Spec
=============================================================================
