-------------------------- MODULE VirtualConnProofs --------------------------
(* Proofs about VirtualConn, for any number of connections, writes, losses  *)
(* and errors, and any session time: the bounds of the model are constants. *)
EXTENDS VirtualConn, SequenceTheorems, WellFoundedInduction, TLAPS

-----------------------------------------------------------------------------
(* Sets of naturals, and the list of a ConnMgr.                            *)

LEMMA LeastNumber ==
    ASSUME NEW T \in SUBSET Nat, T # {} PROVE \E x \in T : \A y \in T : x <= y
<1> DEFINE R == OpToRel(<, Nat)
<1>1. IsWellFoundedOn(R, Nat)
  BY NatLessThanWellFounded, Zenon
<1>2. \A x, y \in Nat : y < x => <<y, x>> \in R
  BY Zenon DEF OpToRel
<1> HIDE DEF R
<1>3. \E x \in T : \A y \in T : ~ (<<y, x>> \in R)
  BY <1>1, WFMin
<1>4. \E x \in T : \A y \in T : ~ (y < x)
  BY <1>2, <1>3, Zenon
<1> QED
  BY <1>4

LEMMA MaxProperties ==
    ASSUME NEW n \in Nat, NEW S \in SUBSET (0 .. n), S # {} PROVE Max(S) \in S
<1> DEFINE T == {k \in 0 .. n : n - k \in S}
<1>1. PICK s \in S : TRUE
  OBVIOUS
<1>2. s \in 0 .. n /\ n - s \in 0 .. n /\ n - (n - s) = s
  BY <1>1
<1>3. PICK x \in T : \A y \in T : x <= y
  <2>1. T \in SUBSET Nat /\ n - s \in T
    BY <1>1, <1>2
  <2> QED
    BY <2>1, LeastNumber
<1>4. ASSUME NEW y \in S PROVE y <= n - x
  <2>1. n - y \in T
    OBVIOUS
  <2> QED
    BY <1>3, <2>1
<1>5. \E m \in S : \A y \in S : m >= y
  BY <1>3, <1>4
<1> QED
  BY <1>5 DEF Max

Distinct(l) == \A i, j \in 1 .. Len(l) : l[i] = l[j] => i = j
Elements(l) == {l[i] : i \in 1 .. Len(l)}

\* Taking a connection out of the list of a ConnMgr.
LEMMA RemoveFirstElements ==
    ASSUME NEW S, NEW l \in Seq(S), Distinct(l), NEW h \in Elements(l)
    PROVE  /\ RemoveFirst(l, h) \in Seq(S)
           /\ Elements(RemoveFirst(l, h)) = Elements(l) \ {h}
           /\ Distinct(RemoveFirst(l, h))
<1>1. PICK k \in 1 .. Len(l) : l[k] = h
  BY DEF Elements
<1> DEFINE a == SubSeq(l, 1, k - 1)
           b == SubSeq(l, k + 1, Len(l))
           m == a \o b
<1>2. RemoveFirst(l, h) = m
  <2> DEFINE I == {i \in 1 .. Len(l) : l[i] = h}
  <2>1. I = {k} /\ Min(I) = k
    BY <1>1 DEF Distinct, Min
  <2> QED
    BY <2>1 DEF RemoveFirst, SelectInSeq, RemoveAt
<1>3. a \in Seq(S) /\ Len(a) = k - 1 /\ \A i \in 1 .. k - 1 : a[i] = l[i]
  BY <1>1, SubSeqProperties
<1>4. b \in Seq(S) /\ Len(b) = Len(l) - k /\ \A i \in 1 .. Len(l) - k : b[i] = l[k + i]
  BY <1>1, SubSeqProperties
<1> HIDE DEF a, b
<1>5. m \in Seq(S) /\ Len(m) = Len(l) - 1
  BY <1>1, <1>3, <1>4, ConcatProperties
<1>6. \A j \in 1 .. Len(m) : m[j] = IF j < k THEN l[j] ELSE l[j + 1]
  BY <1>1, <1>3, <1>4, <1>5, ConcatProperties
<1> HIDE DEF m
<1>7. Elements(m) \subseteq Elements(l) \ {h}
  BY <1>1, <1>5, <1>6 DEF Elements, Distinct
<1>8. ASSUME NEW p \in 1 .. Len(l), l[p] # h PROVE \E j \in 1 .. Len(m) : m[j] = l[p]
  <2>1. CASE p < k
    BY <1>5, <1>6, <2>1
  <2>2. CASE p > k
    <3>1. p - 1 \in 1 .. Len(m) /\ ~(p - 1 < k) /\ (p - 1) + 1 = p
      BY <1>5, <2>2
    <3>2. m[p - 1] = l[p]
      BY <1>6, <3>1
    <3> QED
      BY <3>1, <3>2
  <2> QED
    BY <1>1, <1>8, <2>1, <2>2
<1>9. Elements(m) = Elements(l) \ {h}
  BY <1>7, <1>8 DEF Elements
<1>10. Distinct(m)
  BY <1>1, <1>5, <1>6 DEF Distinct
<1> QED
  BY <1>2, <1>5, <1>9, <1>10

\* Adding one that is not there.
LEMMA AppendElements ==
    ASSUME NEW S, NEW l \in Seq(S), Distinct(l), NEW h \in S, h \notin Elements(l)
    PROVE  /\ Append(l, h) \in Seq(S)
           /\ Elements(Append(l, h)) = Elements(l) \cup {h}
           /\ Distinct(Append(l, h))
<1> DEFINE m == Append(l, h)
<1>1. /\ m \in Seq(S) /\ Len(m) = Len(l) + 1 /\ m[Len(l) + 1] = h
      /\ \A i \in 1 .. Len(l) : m[i] = l[i]
  BY AppendProperties
<1> HIDE DEF m
<1>2. Elements(m) \subseteq Elements(l) \cup {h}
  BY <1>1 DEF Elements
<1>3. Elements(l) \cup {h} \subseteq Elements(m)
  <2>1. h \in Elements(m)
    BY <1>1 DEF Elements
  <2>2. ASSUME NEW i \in 1 .. Len(l) PROVE l[i] \in Elements(m)
    <3>1. i \in 1 .. Len(m) /\ m[i] = l[i]
      BY <1>1
    <3> QED
      BY <3>1 DEF Elements
  <2> QED
    BY <2>1, <2>2 DEF Elements
<1>4. Distinct(m)
  BY <1>1 DEF Distinct, Elements
<1> QED
  BY <1>1, <1>2, <1>3, <1>4 DEF m

-----------------------------------------------------------------------------
(* Types.                                                                  *)

Messages == [cmd : {"Connect", "Data", "Close"}, id : Ids, seq : Nat, data : Nat]

AppStates == {"none", "new", "added", "held", "closing", "closed", "failed"}

ConnType ==
    /\ net \in [Ends -> Seq(Messages)]
    /\ budget \in Nat
    /\ work \in [Ends -> Seq(Messages)]
    /\ lru \in [Ends -> Seq(Ids)]
    /\ sendSeq \in [Ends -> [Ids -> Nat]] /\ recvSeq \in [Ends -> [Ids -> Nat]]
    /\ sent \in [Ends -> [Ids -> Seq(Nat)]] /\ got \in [Ends -> [Ids -> Seq(Nat)]]
    /\ done \in [Ends -> [Ids -> Nat]]
    /\ app \in [Ends -> [Ids -> AppStates]]
    /\ dials \in 0 .. MaxDials
    /\ connected \in Seq(Ids)
    /\ chk \in [Ends -> Seq(Ids)] /\ told \in [Ends -> BOOLEAN]
    /\ \A e \in Ends : told[e] => chk[e] # <<>>
    /\ dropped \in [Ends -> SUBSET Ids]
    /\ \A e \in Ends : Distinct(lru[e])

LEMMA PeerType == \A e \in Ends : Peer(e) \in Ends /\ Peer(e) # e /\ Peer(Peer(e)) = e
  BY DEF Ends, Peer

\* A send puts up to n copies of the message behind the others.
Posted(e, m, n, q) ==
    /\ budget' \in Nat
    /\ net' \in [Ends -> Seq(Messages)]
    /\ net'[e] = q[e]
    /\ Len(net'[Peer(e)]) - Len(q[Peer(e)]) \in 0 .. n
    /\ \A i \in 1 .. Len(net'[Peer(e)]) :
          \/ i <= Len(q[Peer(e)]) /\ net'[Peer(e)][i] = q[Peer(e)][i]
          \/ i > Len(q[Peer(e)]) /\ net'[Peer(e)][i] = m

LEMMA PostEffect ==
    ASSUME NEW e \in Ends, NEW m \in Messages, NEW n \in Nat, NEW c \in Nat,
           NEW q \in [Ends -> Seq(Messages)], budget \in Nat, Post(e, m, n, q, c)
    PROVE  Posted(e, m, n, q)
<1>1. PICK k \in 0 .. n :
         /\ c + n - k <= budget
         /\ budget' = budget - (c + n - k)
         /\ net' = [q EXCEPT ![Peer(e)] = @ \o [i \in 1 .. k |-> m]]
  BY DEF Post
<1> DEFINE a == q[Peer(e)]
           b == [i \in 1 .. k |-> m]
<1>2. a \in Seq(Messages) /\ Peer(e) \in Ends /\ Peer(e) # e
  BY PeerType
<1>3. b \in Seq(Messages) /\ Len(b) = k /\ \A i \in 1 .. k : b[i] = m
  BY <1>1
<1> HIDE DEF a, b
<1>4. /\ a \o b \in Seq(Messages) /\ Len(a \o b) = Len(a) + k
      /\ \A i \in 1 .. Len(a) + k : (a \o b)[i] = IF i <= Len(a) THEN a[i] ELSE m
  <2>1. /\ a \o b \in Seq(Messages) /\ Len(a \o b) = Len(a) + Len(b)
        /\ \A i \in 1 .. Len(a) + Len(b) :
              (a \o b)[i] = IF i <= Len(a) THEN a[i] ELSE b[i - Len(a)]
    BY <1>2, <1>3, ConcatProperties
  <2>2. Len(a) \in Nat /\ k \in Nat
    BY <1>1, <1>2, LenProperties
  <2> QED
    BY <1>3, <2>1, <2>2
<1>5. net'[Peer(e)] = a \o b /\ net'[e] = q[e] /\ net' \in [Ends -> Seq(Messages)]
  BY <1>1, <1>2, <1>4 DEF a, b
<1> QED
  BY <1>1, <1>4, <1>5, LenProperties DEF a, Posted

\* OnMessage takes the first message.
LEMMA TakenEffect ==
    ASSUME ConnType, NEW e \in Ends, net[e] # <<>>
    PROVE  /\ Taken(e) \in [Ends -> Seq(Messages)]
           /\ Taken(e)[Peer(e)] = net[Peer(e)]
           /\ Len(net[e]) > 0 /\ Len(Taken(e)[e]) = Len(net[e]) - 1
           /\ \A i \in 1 .. Len(net[e]) - 1 : Taken(e)[e][i] = net[e][i + 1]
           /\ Head(net[e]) = net[e][1] /\ Head(net[e]) \in Messages
  BY PeerType, HeadTailProperties DEF Taken, ConnType

\* The tables.
LEMMA DelConnEffect ==
    ASSUME ConnType, NEW e \in Ends, NEW id \in Ids, DelConn(e, id)
    PROVE  /\ lru' \in [Ends -> Seq(Ids)] /\ done' \in [Ends -> [Ids -> Nat]]
           /\ \A f \in Ends : Distinct(lru'[f])
           /\ \A f \in Ends, j \in Ids : Has(f, j)' <=> Has(f, j) /\ ~(f = e /\ j = id)
           /\ \A f \in Ends, j \in Ids :
                 done'[f][j] = IF f = e /\ j = id /\ Has(e, id) THEN done[f][j] + 1
                               ELSE done[f][j]
           /\ dropped' = dropped
<1>1. \A f \in Ends, j \in Ids : Has(f, j) <=> j \in Elements(lru[f])
  BY DEF Has, Elements
<1>2. \A f \in Ends, j \in Ids : Has(f, j)' <=> j \in Elements(lru'[f])
  BY DEF Has, Elements
<1>3. CASE Has(e, id)
  <2>1. /\ RemoveFirst(lru[e], id) \in Seq(Ids)
        /\ Elements(RemoveFirst(lru[e], id)) = Elements(lru[e]) \ {id}
        /\ Distinct(RemoveFirst(lru[e], id))
    BY <1>1, <1>3, RemoveFirstElements DEF ConnType
  <2> DEFINE l == RemoveFirst(lru[e], id)
  <2>2. /\ lru \in [Ends -> Seq(Ids)] /\ \A f \in Ends : Distinct(lru[f])
        /\ done \in [Ends -> [Ids -> Nat]]
        /\ lru' = [lru EXCEPT ![e] = l] /\ done' = [done EXCEPT ![e][id] = @ + 1]
    BY <1>3 DEF DelConn, ConnType
  <2> HIDE DEF l
  <2>3. /\ lru'[e] = l /\ \A f \in Ends : f # e => lru'[f] = lru[f]
        /\ lru' \in [Ends -> Seq(Ids)] /\ \A f \in Ends : Distinct(lru'[f])
    BY <2>1, <2>2 DEF l
  <2>4. done' \in [Ends -> [Ids -> Nat]] /\
        \A f \in Ends, j \in Ids :
           done'[f][j] = IF f = e /\ j = id /\ Has(e, id) THEN done[f][j] + 1 ELSE done[f][j]
    BY <1>3, <2>2
  <2>5. \A f \in Ends, j \in Ids : Has(f, j)' <=> Has(f, j) /\ ~(f = e /\ j = id)
    BY <1>1, <1>2, <2>1, <2>3 DEF l
  <2> QED
    BY <2>3, <2>4, <2>5 DEF DelConn
<1>4. CASE ~Has(e, id)
  BY <1>1, <1>2, <1>4 DEF DelConn, ConnType
<1> QED
  BY <1>3, <1>4

LEMMA AddConnEffect ==
    ASSUME ConnType, NEW e \in Ends, NEW id \in Ids, ~Has(e, id), AddConn(e, id)
    PROVE  /\ lru' \in [Ends -> Seq(Ids)]
           /\ \A f \in Ends : Distinct(lru'[f])
           /\ \A f \in Ends, j \in Ids : Has(f, j)' <=> Has(f, j) \/ (f = e /\ j = id)
<1>1. \A f \in Ends, j \in Ids : Has(f, j) <=> j \in Elements(lru[f])
  BY DEF Has, Elements
<1>2. \A f \in Ends, j \in Ids : Has(f, j)' <=> j \in Elements(lru'[f])
  BY DEF Has, Elements
<1>3. /\ Append(lru[e], id) \in Seq(Ids)
      /\ Elements(Append(lru[e], id)) = Elements(lru[e]) \cup {id}
      /\ Distinct(Append(lru[e], id))
  BY <1>1, AppendElements DEF ConnType
<1>4. lru'[e] = Append(lru[e], id) /\ \A f \in Ends : f # e => lru'[f] = lru[f]
  BY DEF AddConn, ConnType
<1> QED
  BY <1>1, <1>2, <1>3, <1>4 DEF AddConn, ConnType

LEMMA GetConnEffect ==
    ASSUME ConnType, NEW e \in Ends, NEW id \in Ids, Has(e, id), GetConn(e, id)
    PROVE  /\ lru' \in [Ends -> Seq(Ids)]
           /\ \A f \in Ends : Distinct(lru'[f])
           /\ \A f \in Ends, j \in Ids : Has(f, j)' <=> Has(f, j)
<1> DEFINE l == RemoveFirst(lru[e], id)
<1>1. \A f \in Ends, j \in Ids : Has(f, j) <=> j \in Elements(lru[f])
  BY DEF Has, Elements
<1>2. \A f \in Ends, j \in Ids : Has(f, j)' <=> j \in Elements(lru'[f])
  BY DEF Has, Elements
<1>3. l \in Seq(Ids) /\ Elements(l) = Elements(lru[e]) \ {id} /\ Distinct(l)
  BY <1>1, RemoveFirstElements DEF ConnType
<1>4. /\ Append(l, id) \in Seq(Ids) /\ Elements(Append(l, id)) = Elements(l) \cup {id}
      /\ Distinct(Append(l, id))
  BY <1>3, AppendElements
<1>5. lru'[e] = Append(l, id) /\ \A f \in Ends : f # e => lru'[f] = lru[f]
  BY DEF GetConn, ConnType
<1> QED
  BY <1>1, <1>2, <1>3, <1>4, <1>5 DEF GetConn, ConnType

LEMMA TypeInit == Init => ConnType
<1> SUFFICES ASSUME Init PROVE ConnType
  OBVIOUS
<1>1. dials \in 0 .. MaxDials /\ budget \in Nat
  BY ConnBounds DEF Init
<1>2. <<>> \in Seq(Messages) /\ <<>> \in Seq(Ids) /\ <<>> \in Seq(Nat) /\ Distinct(<<>>)
  BY DEF Distinct
<1> QED
  BY <1>1, <1>2 DEF Init, ConnType, AppStates

LEMMA MsgType == \A c \in {"Connect", "Close"}, id \in Ids : Msg(c, id) \in Messages
  BY DEF Msg, Messages

LEMMA CollectedType == ASSUME ConnType, NEW e \in Ends PROVE Collected(e) \in Seq(Ids)
<1> DEFINE S == {k \in 0 .. Len(lru[e]) :
                   k <= MaxExpiredConnNumPerCheck /\ \A i \in 1 .. k : Expired(e, lru[e][i])}
<1>1. lru[e] \in Seq(Ids) /\ Len(lru[e]) \in Nat
  BY LenProperties DEF ConnType
<1>2. S \in SUBSET (0 .. Len(lru[e])) /\ 0 \in S
  BY <1>1, ConnBounds
<1> HIDE DEF S
<1>3. Max(S) \in 0 .. Len(lru[e])
  BY <1>1, <1>2, MaxProperties
<1>4. \A i \in 1 .. Max(S) : lru[e][i] \in Ids
  BY <1>1, <1>3, ElementOfSeq
<1>5. SubSeq(lru[e], 1, Max(S)) \in Seq(Ids)
  BY <1>3, <1>4, SubSeqProperties
<1> QED
  BY <1>5 DEF Collected, S

\* The calls of dial, Close and Accept, and Write.
LEMMA TypeApp ==
    ASSUME ConnType, NEW e \in Ends,
           \/ DialNew \/ Accept
           \/ \E id \in Ids : DialConnect(id) \/ Write(e, id) \/ CloseSend(e, id)
    PROVE  ConnType'
<1>1. CASE DialNew
  <2>1. dials' \in Ids /\ dials' \in 0 .. MaxDials /\ budget' \in Nat
    BY <1>1, ConnBounds DEF DialNew, ConnType, Ids
  <2> QED
    BY <1>1, <2>1 DEF DialNew, ConnType, AppStates, Ends, connVars, mgrVars, chkVars
<1>2. ASSUME NEW id \in Ids, DialConnect(id) PROVE ConnType'
  <2>1. budget' \in Nat /\ net' \in [Ends -> Seq(Messages)]
    <3>1. CASE Post("dialer", Msg("Connect", id), 1, net, 0)
      BY <3>1, PostEffect, MsgType DEF Posted, ConnType, Ends
    <3>2. CASE Fails(0)
      BY <3>2 DEF ConnType, Fails
    <3> QED
      BY <1>2, <3>1, <3>2 DEF DialConnect
  <2>2. app' \in [Ends -> [Ids -> AppStates]]
    <3>1. app \in [Ends -> [Ids -> AppStates]] /\ "dialer" \in Ends
      BY DEF ConnType, Ends
    <3>2. \E a \in AppStates : app' = [app EXCEPT !["dialer"][id] = a]
      BY <1>2 DEF DialConnect, AppStates
    <3> QED
      BY <3>1, <3>2
  <2> QED
    BY <1>2, <2>1, <2>2 DEF DialConnect, ConnType, connVars, mgrVars, chkVars
<1>3. ASSUME NEW id \in Ids, Write(e, id) PROVE ConnType'
  <2> DEFINE m == [cmd |-> "Data", id |-> id, seq |-> sendSeq[e][id], data |-> budget]
  <2>1. m \in Messages
    BY DEF Messages, ConnType
  <2>2. budget' \in Nat /\ net' \in [Ends -> Seq(Messages)]
    <3>1. CASE Post(e, m, 1, net, 1)
      BY <2>1, <3>1, PostEffect DEF Posted, ConnType
    <3>2. CASE Fails(1)
      BY <3>2 DEF ConnType, Fails
    <3> QED
      BY <1>3, <3>1, <3>2 DEF Write
  <2>3. Append(sent[e][id], budget) \in Seq(Nat)
    BY AppendProperties DEF ConnType
  <2>4. sendSeq' \in [Ends -> [Ids -> Nat]] /\ sent' \in [Ends -> [Ids -> Seq(Nat)]]
    <3>1. /\ sendSeq \in [Ends -> [Ids -> Nat]] /\ sent \in [Ends -> [Ids -> Seq(Nat)]]
          /\ sendSeq[e][id] + 1 \in Nat
      BY SMTT(30) DEF ConnType
    <3>2. \/ UNCHANGED <<sendSeq, sent>>
          \/ /\ sendSeq' = [sendSeq EXCEPT ![e][id] = sendSeq[e][id] + 1]
             /\ sent' = [sent EXCEPT ![e][id] = Append(sent[e][id], budget)]
      BY <1>3 DEF Write
    <3> DEFINE D == Seq(Nat)
               v == Append(sent[e][id], budget)
    <3>3. v \in D /\ sent \in [Ends -> [Ids -> D]]
      BY <2>3, <3>1
    <3> HIDE DEF D, v
    <3>4. [sent EXCEPT ![e][id] = v] \in [Ends -> [Ids -> D]]
      BY <3>3
    <3>5. [sendSeq EXCEPT ![e][id] = sendSeq[e][id] + 1] \in [Ends -> [Ids -> Nat]]
      BY <3>1
    <3> QED
      BY <3>1, <3>2, <3>4, <3>5 DEF D, v
  <2> QED
    BY <1>3, <2>2, <2>4 DEF Write, ConnType, mgrVars, chkVars
<1>4. ASSUME NEW id \in Ids, CloseSend(e, id) PROVE ConnType'
  <2>1. budget' \in Nat /\ net' \in [Ends -> Seq(Messages)]
    BY <1>4, PostEffect, MsgType DEF Posted, CloseSend, ConnType
  <2> QED
    BY <1>4, <2>1 DEF CloseSend, ConnType, AppStates, connVars, mgrVars, chkVars
<1>5. CASE Accept
  <2>1. Head(connected) \in Ids /\ Tail(connected) \in Seq(Ids)
    BY <1>5, HeadTailProperties DEF Accept, ConnType
  <2> QED
    BY <1>5, <2>1 DEF Accept, ConnType, AppStates, Ends, netVars, connVars, mgrVars, chkVars
<1> QED
  BY <1>1, <1>2, <1>3, <1>4, <1>5

\* What changes a table.
LEMMA TypeTables ==
    ASSUME ConnType, NEW e \in Ends,
           \/ \E id \in Ids : (DialAdd(id) /\ ~Has("dialer", id)) \/ CloseDel(e, id)
           \/ OnClose(e) \/ CheckDel(e) \/ OnInstOffline
    PROVE  ConnType'
<1>1. ASSUME NEW id \in Ids, DialAdd(id), ~Has("dialer", id) PROVE ConnType'
  <2>1. lru' \in [Ends -> Seq(Ids)] /\ \A f \in Ends : Distinct(lru'[f])
    BY <1>1, AddConnEffect DEF DialAdd, Ends
  <2> QED
    BY <1>1, <2>1 DEF DialAdd, ConnType, AppStates, Ends, netVars, connVars, chkVars
<1> DEFINE Tables == /\ lru' \in [Ends -> Seq(Ids)] /\ done' \in [Ends -> [Ids -> Nat]]
                     /\ \A f \in Ends : Distinct(lru'[f])
                     /\ dropped' = dropped
<1>2. ASSUME NEW id \in Ids, CloseDel(e, id) PROVE ConnType'
  <2>1. Tables
    BY <1>2, DelConnEffect DEF CloseDel
  <2> QED
    BY <1>2, <2>1 DEF CloseDel, ConnType, AppStates, netVars, connVars, chkVars
<1>3. CASE OnClose(e)
  <2>1. Head(net[e]).id \in Ids /\ Taken(e) \in [Ends -> Seq(Messages)]
    BY <1>3, TakenEffect DEF OnClose, Arrives, Messages
  <2>2. Tables
    BY <1>3, <2>1, DelConnEffect DEF OnClose
  <2> QED
    BY <1>3, <2>1, <2>2 DEF OnClose, ConnType, connVars, appVars, chkVars
<1>4. CASE CheckDel(e)
  <2>1. Head(chk[e]) \in Ids /\ Tail(chk[e]) \in Seq(Ids)
    BY <1>4, HeadTailProperties DEF CheckDel, ConnType
  <2>2. Tables
    BY <1>4, <2>1, DelConnEffect DEF CheckDel
  <2> QED
    BY <1>4, <2>1, <2>2 DEF CheckDel, ConnType, netVars, connVars, appVars
<1>5. CASE OnInstOffline
  <2>1. Range(lru["listener"]) \in SUBSET Ids
    <3>1. lru["listener"] \in Seq(Ids)
      BY DEF ConnType, Ends
    <3> QED
      BY <3>1 DEF Range
  <2>2. Distinct(<<>>) /\ <<>> \in Seq(Ids)
    BY DEF Distinct
  <2>3. lru' \in [Ends -> Seq(Ids)] /\ \A f \in Ends : Distinct(lru'[f])
    BY <1>5, <2>2 DEF OnInstOffline, Forget, ConnType
  <2>4. dropped' \in [Ends -> SUBSET Ids]
    <3>1. dropped' = [dropped EXCEPT !["listener"] =
                         dropped["listener"] \cup Range(lru["listener"])]
      BY <1>5 DEF OnInstOffline, Forget
    <3>2. dropped \in [Ends -> SUBSET Ids] /\ "listener" \in Ends
      BY DEF ConnType, Ends
    <3> QED
      BY <2>1, <3>1, <3>2
  <2>5. budget' \in Nat
    BY <1>5 DEF OnInstOffline, ConnType
  <2> QED
    BY <1>5, <2>3, <2>4, <2>5 DEF OnInstOffline, Forget, ConnType, connVars, appVars, chkVars
<1> QED
  BY <1>1, <1>2, <1>3, <1>4, <1>5

\* The other messages, and the checker.
LEMMA TypeMessages ==
    ASSUME ConnType, NEW e \in Ends,
           \/ OnConnect /\ ~Has("listener", Head(net["listener"]).id)
           \/ OnDataGet(e) \/ OnRecv(e)
           \/ CheckExpired(e) \/ CheckSend(e)
    PROVE  ConnType'
<1>1. CASE OnConnect /\ ~Has("listener", Head(net["listener"]).id)
  <2> DEFINE id == Head(net["listener"]).id
  <2>1. id \in Ids /\ Taken("listener") \in [Ends -> Seq(Messages)]
    BY <1>1, TakenEffect DEF OnConnect, Arrives, Messages, Ends
  <2>2. lru' \in [Ends -> Seq(Ids)] /\ \A f \in Ends : Distinct(lru'[f])
    BY <1>1, <2>1, AddConnEffect DEF OnConnect, Ends
  <2>3. connected' \in Seq(Ids)
    BY <1>1, <2>1, AppendProperties DEF OnConnect, ConnType
  <2> QED
    BY <1>1, <2>1, <2>2, <2>3 DEF OnConnect, ConnType, connVars, chkVars
<1>2. CASE OnDataGet(e)
  <2> DEFINE m == Head(net[e])
  <2>1. m \in Messages /\ m.id \in Ids /\ Taken(e) \in [Ends -> Seq(Messages)]
    BY <1>2, TakenEffect DEF OnDataGet, Arrives, Messages
  <2>2. CASE Has(e, m.id)
    <3>1. lru' \in [Ends -> Seq(Ids)] /\ \A f \in Ends : Distinct(lru'[f])
      BY <1>2, <2>1, <2>2, GetConnEffect DEF OnDataGet
    <3>2. work' \in [Ends -> Seq(Messages)]
      <4>1. <<m>> \in Seq(Messages)
        BY <2>1
      <4> QED
        BY <1>2, <2>2, <4>1 DEF OnDataGet, ConnType
    <3> QED
      BY <1>2, <2>1, <2>2, <3>1, <3>2 DEF OnDataGet, ConnType, connVars, appVars, chkVars
  <2>3. CASE ~Has(e, m.id)
    <3>1. budget' \in Nat /\ net' \in [Ends -> Seq(Messages)]
      BY <1>2, <2>1, <2>3, PostEffect, MsgType DEF Posted, OnDataGet, ConnType
    <3> QED
      BY <1>2, <2>3, <3>1 DEF OnDataGet, ConnType, connVars, appVars, chkVars
  <2> QED
    BY <2>2, <2>3
<1>3. CASE OnRecv(e)
  <2> DEFINE m == work[e][1]
  <2>1. m \in Messages /\ m.id \in Ids /\ m.data \in Nat
    <3>1. work[e] \in Seq(Messages) /\ work[e] # <<>>
      BY <1>3 DEF OnRecv, ConnType
    <3>2. m \in Messages
      BY <3>1, EmptySeq, LenProperties, ElementOfSeq
    <3> QED
      BY <3>2 DEF Messages
  <2> HIDE DEF m
  <2>2. budget' \in Nat /\ net' \in [Ends -> Seq(Messages)]
    <3>1. CASE UNCHANGED netVars
      BY <3>1 DEF netVars, ConnType
    <3>2. ASSUME NEW n \in {1, 2}, Post(e, Msg("Close", m.id), n, net, 0)
          PROVE  budget' \in Nat /\ net' \in [Ends -> Seq(Messages)]
      <4>1. Msg("Close", m.id) \in Messages /\ n \in Nat
        BY <2>1, MsgType
      <4> QED
        BY <3>2, <4>1, PostEffect DEF Posted, ConnType
    <3> QED
      BY <1>3, <3>1, <3>2, Zenon DEF OnRecv, m
  <2>3. recvSeq' \in [Ends -> [Ids -> Nat]] /\ got' \in [Ends -> [Ids -> Seq(Nat)]]
    <3>1. /\ recvSeq \in [Ends -> [Ids -> Nat]] /\ got \in [Ends -> [Ids -> Seq(Nat)]]
          /\ recvSeq[e][m.id] + 1 \in Nat /\ Append(got[e][m.id], m.data) \in Seq(Nat)
      <4>1. recvSeq \in [Ends -> [Ids -> Nat]] /\ got \in [Ends -> [Ids -> Seq(Nat)]]
        BY DEF ConnType
      <4> QED
        BY <2>1, <4>1, AppendProperties
    <3>2. /\ \/ UNCHANGED recvSeq
             \/ recvSeq' = [recvSeq EXCEPT ![e][m.id] = recvSeq[e][m.id] + 1]
          /\ \/ UNCHANGED got
             \/ got' = [got EXCEPT ![e][m.id] = Append(got[e][m.id], m.data)]
      BY <1>3 DEF OnRecv, m
    <3> DEFINE D == Seq(Nat)
               v == Append(got[e][m.id], m.data)
    <3>3. v \in D /\ got \in [Ends -> [Ids -> D]]
      BY <3>1
    <3> HIDE DEF D, v
    <3>4. [got EXCEPT ![e][m.id] = v] \in [Ends -> [Ids -> D]]
      BY <2>1, <3>3
    <3>5. [recvSeq EXCEPT ![e][m.id] = recvSeq[e][m.id] + 1] \in [Ends -> [Ids -> Nat]]
      BY <2>1, <3>1
    <3> QED
      BY <3>1, <3>2, <3>4, <3>5 DEF D, v
  <2>4. work' \in [Ends -> Seq(Messages)]
    BY <1>3, EmptySeq DEF OnRecv, ConnType
  <2> QED
    BY <1>3, <2>2, <2>3, <2>4 DEF OnRecv, ConnType, appVars, chkVars
<1>4. CASE CheckExpired(e)
  BY <1>4, CollectedType DEF CheckExpired, ConnType, netVars, connVars, mgrVars, appVars
<1>5. CASE CheckSend(e)
  <2>1. Head(chk[e]) \in Ids
    BY <1>5, HeadTailProperties DEF CheckSend, ConnType
  <2>2. budget' \in Nat /\ net' \in [Ends -> Seq(Messages)]
    BY <1>5, <2>1, PostEffect, MsgType DEF Posted, CheckSend, ConnType
  <2> QED
    BY <1>5, <2>2 DEF CheckSend, ConnType, connVars, mgrVars, appVars
<1> QED
  BY <1>1, <1>2, <1>3, <1>4, <1>5

-----------------------------------------------------------------------------
(* What a step does to the messages under way.                             *)

\* Messages keep their order, the first may be taken, and what is added at
\* the end is one of the commands C.
Adds(C) ==
    \A f \in Ends : \E d \in {0, 1} : \A i \in 1 .. Len(net'[f]) :
       \/ i + d \in 1 .. Len(net[f]) /\ net'[f][i] = net[f][i + d]
       \/ net'[f][i].cmd \in C

LEMMA AddsMore == ASSUME NEW C, NEW D, C \subseteq D, Adds(C) PROVE Adds(D)
  BY DEF Adds

LEMMA AddsNothing == ASSUME ConnType, NEW C, net' = net PROVE Adds(C)
<1> SUFFICES ASSUME NEW f \in Ends
             PROVE  \A i \in 1 .. Len(net'[f]) :
                       i + 0 \in 1 .. Len(net[f]) /\ net'[f][i] = net[f][i + 0]
  BY DEF Adds
<1>1. Len(net[f]) \in Nat
  BY LenProperties DEF ConnType
<1> QED
  BY <1>1

LEMMA AddsTaken ==
    ASSUME ConnType, NEW e \in Ends, net[e] # <<>>, net' = Taken(e), NEW C PROVE Adds(C)
<1>1. /\ net'[Peer(e)] = net[Peer(e)]
      /\ Len(net'[e]) = Len(net[e]) - 1
      /\ \A i \in 1 .. Len(net[e]) - 1 : net'[e][i] = net[e][i + 1]
  BY TakenEffect
<1>2. \A f \in Ends : Len(net[f]) \in Nat
  BY LenProperties DEF ConnType
<1>3. \A i \in 1 .. Len(net'[e]) : i + 1 \in 1 .. Len(net[e]) /\ net'[e][i] = net[e][i + 1]
  BY <1>1, <1>2
<1>4. \A i \in 1 .. Len(net'[Peer(e)]) :
         i + 0 \in 1 .. Len(net[Peer(e)]) /\ net'[Peer(e)][i] = net[Peer(e)][i + 0]
  BY <1>1, <1>2, PeerType
<1>5. \A f \in Ends : f = e \/ f = Peer(e)
  BY DEF Ends, Peer
<1> QED
  BY <1>3, <1>4, <1>5 DEF Adds

\* Sending, also by OnMessage, which has taken its message.
LEMMA AddsPost ==
    ASSUME ConnType, NEW e \in Ends, NEW m \in Messages, NEW n \in Nat, NEW c \in Nat,
           NEW q, q = net \/ (net[e] # <<>> /\ q = Taken(e)), Post(e, m, n, q, c)
    PROVE  Adds({m.cmd})
<1>1. q \in [Ends -> Seq(Messages)] /\ q[Peer(e)] = net[Peer(e)]
  BY TakenEffect DEF ConnType
<1>2. budget \in Nat
  BY DEF ConnType
<1>3. Posted(e, m, n, q)
  BY <1>1, <1>2, PostEffect
<1>4. \A f \in Ends : Len(net[f]) \in Nat
  BY LenProperties DEF ConnType
<1>5. \A i \in 1 .. Len(net'[Peer(e)]) :
         \/ i + 0 \in 1 .. Len(net[Peer(e)]) /\ net'[Peer(e)][i] = net[Peer(e)][i + 0]
         \/ net'[Peer(e)][i].cmd \in {m.cmd}
  <2> DEFINE a == net[Peer(e)]
             b == net'[Peer(e)]
  <2>1. Len(a) \in Nat
    BY <1>4, PeerType
  <2>2. \A i \in 1 .. Len(b) : (i <= Len(a) /\ b[i] = a[i]) \/ b[i] = m
    BY <1>1, <1>3 DEF Posted
  <2> HIDE DEF a, b
  <2>3. \A i \in 1 .. Len(b) :
           (i + 0 \in 1 .. Len(a) /\ b[i] = a[i + 0]) \/ b[i].cmd \in {m.cmd}
    BY <2>1, <2>2
  <2> QED
    BY <2>3 DEF a, b
<1>6. \E d \in {0, 1} : \A i \in 1 .. Len(net'[e]) :
         i + d \in 1 .. Len(net[e]) /\ net'[e][i] = net[e][i + d]
  <2>1. CASE q = net
    <3>1. \A i \in 1 .. Len(net'[e]) : i + 0 \in 1 .. Len(net[e]) /\ net'[e][i] = net[e][i + 0]
      BY <1>3, <1>4, <2>1 DEF Posted
    <3> QED
      BY <3>1
  <2>2. CASE net[e] # <<>> /\ q = Taken(e)
    <3>1. \A i \in 1 .. Len(net'[e]) : i + 1 \in 1 .. Len(net[e]) /\ net'[e][i] = net[e][i + 1]
      BY <1>3, <1>4, <2>2, TakenEffect, SMTT(30) DEF Posted
    <3> QED
      BY <3>1
  <2> QED
    BY <2>1, <2>2
<1>7. \A f \in Ends : f = e \/ f = Peer(e)
  BY DEF Ends, Peer
<1> QED
  BY <1>5, <1>6, <1>7 DEF Adds

\* A reset or a Close.
LEMMA AddsClose ==
    ASSUME ConnType, NEW e \in Ends, NEW id \in Ids, NEW n \in {1, 2}, NEW c \in {0, 1},
           NEW q, q = net \/ (net[e] # <<>> /\ q = Taken(e)), Post(e, Msg("Close", id), n, q, c)
    PROVE  Adds({"Close"})
<1> DEFINE m == Msg("Close", id)
<1>1. m \in Messages /\ m.cmd = "Close" /\ n \in Nat /\ c \in Nat
  BY MsgType DEF Msg
<1>2. Post(e, m, n, q, c)
  OBVIOUS
<1> HIDE DEF m
<1>3. Adds({m.cmd})
  BY <1>1, <1>2, AddsPost
<1> QED
  BY <1>1, <1>3

-----------------------------------------------------------------------------
(* The tables.                                                             *)

\* A Connect for id is on its way.
Pending(id) == \E i \in 1 .. Len(net["listener"]) :
                  net["listener"][i].cmd = "Connect" /\ net["listener"][i].id = id

\* A connection is in the table of an end at most once in its life: the dialer
\* adds it before it sends the one Connect, and the listener when that arrives.
\* DelConn closes done while it is there, and only then.
TableInv ==
    /\ \A e \in Ends, id \in Ids : done[e][id] <= 1 /\ (Has(e, id) => done[e][id] = 0)
    /\ \A id \in Ids : id > dials => app["dialer"][id] = "none"
    /\ \A id \in Ids : app["dialer"][id] \in {"none", "new"} =>
                          ~Has("dialer", id) /\ done["dialer"][id] = 0
    /\ \A id \in Ids : app["dialer"][id] \in {"none", "new", "added"} => ~Pending(id)
    /\ \A id \in Ids : app["dialer"][id] \in {"none", "new", "added"} \/ Pending(id) =>
                          ~Has("listener", id) /\ done["listener"][id] = 0
    /\ \A i, j \in 1 .. Len(net["listener"]) :
          /\ net["listener"][i].cmd = "Connect" /\ net["listener"][j].cmd = "Connect"
          /\ net["listener"][i].id = net["listener"][j].id
          => i = j

LEMMA TableInit == Init => TableInv
<1> SUFFICES ASSUME Init PROVE TableInv
  OBVIOUS
<1>1. \A e \in Ends, id \in Ids : ~Has(e, id) /\ done[e][id] = 0 /\ app[e][id] = "none"
  BY DEF Init, Has
<1>2. Len(net["listener"]) = 0
  BY DEF Init, Ends
<1> QED
  BY <1>1, <1>2 DEF TableInv, Ends, Pending

\* Connections only leave the tables, by DelConn or without it, and no dial
\* goes on.
TablesShrink ==
    /\ \A f \in Ends, j \in Ids : Has(f, j)' => Has(f, j)
    /\ \A f \in Ends, j \in Ids :
          done'[f][j] = done[f][j] \/ (Has(f, j) /\ ~Has(f, j)' /\ done'[f][j] = 1)
    /\ \A j \in Ids : \/ app'["dialer"][j] = app["dialer"][j]
                      \/ {app["dialer"][j], app'["dialer"][j]} \cap {"none", "new", "added"} = {}
    /\ dials' = dials

\* A connection that leaves a table has done closed, or OnInstOffline took it.
Remembers ==
    \A f \in Ends, j \in Ids :
       /\ Has(f, j) => Has(f, j)' \/ done'[f][j] > 0 \/ (f = "listener" /\ j \in dropped'[f])
       /\ done'[f][j] >= done[f][j]
       /\ j \in dropped[f] => j \in dropped'[f]

\* Steps that add no Connect and take connections out of the tables only.
LEMMA TableQuiet ==
    ASSUME ConnType, ConnType', TableInv, Adds({"Data", "Close"}),
           TablesShrink
    PROVE  TableInv'
<1> DEFINE q == net["listener"]
           r == net'["listener"]
<1> USE DEF TablesShrink
<1>1. PICK d \in {0, 1} : \A i \in 1 .. Len(r) :
         (i + d \in 1 .. Len(q) /\ r[i] = q[i + d]) \/ r[i].cmd \in {"Data", "Close"}
  BY DEF Adds, Ends
<1>2. \A id \in Ids : Pending(id)' => Pending(id)
  BY <1>1 DEF Pending
<1>3. ASSUME NEW i \in 1 .. Len(r), NEW j \in 1 .. Len(r),
             r[i].cmd = "Connect", r[j].cmd = "Connect", r[i].id = r[j].id
      PROVE  i = j
  <2>1. /\ i + d \in 1 .. Len(q) /\ r[i] = q[i + d]
        /\ j + d \in 1 .. Len(q) /\ r[j] = q[j + d]
    BY <1>1, <1>3
  <2>2. i + d = j + d
    BY <1>3, <2>1 DEF TableInv
  <2>3. Len(r) \in Nat /\ d \in Nat
    BY <1>1, LenProperties DEF ConnType, Ends
  <2> QED
    BY <2>2, <2>3
<1>4. "dialer" \in Ends /\ "listener" \in Ends
  BY DEF Ends
<1> HIDE DEF q, r
<1>5. \A e \in Ends, id \in Ids : done'[e][id] <= 1 /\ (Has(e, id)' => done'[e][id] = 0)
  BY DEF TableInv
<1>6. \A id \in Ids : app'["dialer"][id] \in {"none", "new", "added"} =>
                         app'["dialer"][id] = app["dialer"][id]
  OBVIOUS
<1>7. \A id \in Ids : id > dials' => app'["dialer"][id] = "none"
  BY DEF TableInv
<1>8. \A id \in Ids :
         /\ app'["dialer"][id] \in {"none", "new"} => ~Has("dialer", id)' /\ done'["dialer"][id] = 0
         /\ app'["dialer"][id] \in {"none", "new", "added"} => ~Pending(id)'
         /\ app'["dialer"][id] \in {"none", "new", "added"} \/ Pending(id)' =>
               ~Has("listener", id)' /\ done'["listener"][id] = 0
  BY <1>2, <1>4, <1>6 DEF TableInv
<1> QED
  BY <1>3, <1>5, <1>7, <1>8 DEF TableInv, q, r

\* The steps of a dial, and the arrival of its Connect.
LEMMA TableDial ==
    ASSUME ConnType, ConnType', TableInv, NEW id \in Ids,
           DialNew \/ DialAdd(id) \/ DialConnect(id)
    PROVE  TableInv'
<1>1. "dialer" \in Ends /\ "listener" \in Ends
  BY DEF Ends
<1>2. app \in [Ends -> [Ids -> AppStates]] /\ dials \in 0 .. MaxDials
  BY DEF ConnType
<1>3. CASE DialNew
  <2>1. /\ UNCHANGED <<net, lru, done>> /\ dials' = dials + 1 /\ dials' \in Ids
        /\ app' = [app EXCEPT !["dialer"][dials'] = "new"]
    BY <1>2, <1>3, ConnBounds DEF DialNew, mgrVars, Ids
  <2>2. \A f \in Ends, j \in Ids : Has(f, j)' <=> Has(f, j)
    BY <2>1 DEF Has
  <2>3. \A j \in Ids : Pending(j)' <=> Pending(j)
    BY <2>1 DEF Pending
  <2>4. \A j \in Ids : app'["dialer"][j] = IF j = dials + 1 THEN "new" ELSE app["dialer"][j]
    BY <1>1, <1>2, <2>1
  <2>5. app["dialer"][dials + 1] = "none"
    BY <1>2, <2>1 DEF TableInv, Ids
  <2>6. \A j \in Ids : j > dials + 1 => j > dials /\ j # dials + 1
    BY <1>2 DEF Ids
  <2>7. \A j \in Ids : j > dials' => app'["dialer"][j] = "none"
    BY <2>1, <2>4, <2>6 DEF TableInv
  <2>8. \A j \in Ids : app'["dialer"][j] \in {"none", "new", "added"} =>
                         app["dialer"][j] \in {"none", "new", "added"}
    BY <2>4, <2>5
  <2>9. \A j \in Ids : app'["dialer"][j] \in {"none", "new"} => app["dialer"][j] \in {"none", "new"}
    BY <2>4, <2>5
  <2>10. \A j \in Ids :
           /\ app'["dialer"][j] \in {"none", "new"} => ~Has("dialer", j)' /\ done'["dialer"][j] = 0
           /\ app'["dialer"][j] \in {"none", "new", "added"} => ~Pending(j)'
           /\ app'["dialer"][j] \in {"none", "new", "added"} \/ Pending(j)' =>
                 ~Has("listener", j)' /\ done'["listener"][j] = 0
    BY <1>1, <2>1, <2>2, <2>3, <2>8, <2>9 DEF TableInv
  <2> QED
    BY <2>1, <2>2, <2>7, <2>10 DEF TableInv
<1>4. CASE DialAdd(id)
  <2>1. /\ UNCHANGED <<net, done, dials>> /\ app["dialer"][id] = "new"
        /\ app' = [app EXCEPT !["dialer"][id] = "added"]
    BY <1>4 DEF DialAdd, netVars
  <2>2. ~Has("dialer", id) /\ done["dialer"][id] = 0
    BY <2>1 DEF TableInv
  <2>3. \A f \in Ends, j \in Ids : Has(f, j)' <=> Has(f, j) \/ (f = "dialer" /\ j = id)
    BY <1>1, <1>4, <2>2, AddConnEffect DEF DialAdd
  <2>4. \A j \in Ids : Pending(j)' <=> Pending(j)
    BY <2>1 DEF Pending
  <2>5. \A j \in Ids : app'["dialer"][j] = IF j = id THEN "added" ELSE app["dialer"][j]
    BY <1>1, <1>2, <2>1
  <2> QED
    BY <1>1, <2>1, <2>2, <2>3, <2>4, <2>5 DEF TableInv
<1>5. CASE DialConnect(id)
  <2>1. /\ UNCHANGED <<lru, done, dials>> /\ app["dialer"][id] = "added"
        /\ \E a \in {"held", "failed"} : app' = [app EXCEPT !["dialer"][id] = a]
    BY <1>5 DEF DialConnect, mgrVars
  <2>2. \A f \in Ends, j \in Ids : Has(f, j)' <=> Has(f, j)
    BY <2>1 DEF Has
  <2>3. /\ app'["dialer"][id] \in {"held", "failed"}
        /\ \A j \in Ids : j # id => app'["dialer"][j] = app["dialer"][j]
    BY <1>1, <1>2, <2>1
  <2> DEFINE q == net["listener"]
             r == net'["listener"]
             m == Msg("Connect", id)
  <2>4. /\ q \in Seq(Messages) /\ r \in Seq(Messages)
        /\ Len(r) - Len(q) \in 0 .. 1 /\ \A i \in 1 .. Len(r) : r[i] = IF i <= Len(q) THEN q[i] ELSE m
    <3>1. q \in Seq(Messages) /\ r \in Seq(Messages) /\ Len(q) \in Nat
      BY <1>1, LenProperties DEF ConnType
    <3>2. CASE Post("dialer", m, 1, net, 0)
      <4>1. m \in Messages /\ net \in [Ends -> Seq(Messages)] /\ budget \in Nat
        BY MsgType DEF ConnType
      <4>2. Peer("dialer") = "listener"
        BY DEF Peer
      <4> HIDE DEF m
      <4>3. PICK k \in 0 .. 1 : net' = [net EXCEPT ![Peer("dialer")] = @ \o [i \in 1 .. k |-> m]]
        BY <3>2 DEF Post
      <4>4. r = q \o [i \in 1 .. k |-> m]
        BY <1>1, <4>1, <4>2, <4>3
      <4>5. [i \in 1 .. k |-> m] \in Seq(Messages) /\ Len([i \in 1 .. k |-> m]) = k
        BY <4>1, <4>3
      <4> HIDE DEF q, r
      <4>6. Len(r) = Len(q) + k /\ \A i \in 1 .. Len(r) : r[i] = IF i <= Len(q) THEN q[i] ELSE m
        BY <3>1, <4>3, <4>4, <4>5
      <4> QED
        BY <3>1, <4>3, <4>6
    <3>3. CASE Fails(0)
      BY <3>1, <3>3 DEF Fails
    <3> QED
      BY <1>5, <3>2, <3>3 DEF DialConnect
  <2>5. m.cmd = "Connect" /\ m.id = id
    BY DEF Msg
  <2> HIDE DEF m
  <2>6. \A i \in 1 .. Len(q) : q[i].cmd = "Connect" => q[i].id # id
    BY <2>1 DEF TableInv, Pending
  <2>7. \A i, j \in 1 .. Len(r) :
           r[i].cmd = "Connect" /\ r[j].cmd = "Connect" /\ r[i].id = r[j].id => i = j
    <3>1. Len(q) \in Nat /\ Len(r) \in Nat
      BY <2>4, LenProperties
    <3>2. \A i, j \in 1 .. Len(q) :
             q[i].cmd = "Connect" /\ q[j].cmd = "Connect" /\ q[i].id = q[j].id => i = j
      BY DEF TableInv
    <3> HIDE DEF q, r
    <3> QED
      BY <2>4, <2>5, <2>6, <3>1, <3>2, SMTT(30)
  <2>8. \A j \in Ids : Pending(j)' => Pending(j) \/ j = id
    <3>1. \A i \in 1 .. Len(r) : (i \in 1 .. Len(q) /\ r[i] = q[i]) \/ r[i] = m
      BY <2>4, LenProperties
    <3> QED
      BY <2>5, <3>1 DEF Pending
  <2> HIDE DEF q, r
  <2>9. ~Has("listener", id) /\ done["listener"][id] = 0
    BY <2>1 DEF TableInv
  <2>10. \A j \in Ids :
           /\ app'["dialer"][j] \in {"none", "new"} => ~Has("dialer", j)' /\ done'["dialer"][j] = 0
           /\ app'["dialer"][j] \in {"none", "new", "added"} => ~Pending(j)'
           /\ app'["dialer"][j] \in {"none", "new", "added"} \/ Pending(j)' =>
                 ~Has("listener", j)' /\ done'["listener"][j] = 0
    BY <1>1, <2>1, <2>2, <2>3, <2>8, <2>9 DEF TableInv
  <2>11. \A j \in Ids : j > dials' => app'["dialer"][j] = "none"
    BY <2>1, <2>3 DEF TableInv
  <2> QED
    BY <2>1, <2>2, <2>7, <2>10, <2>11 DEF TableInv, q, r
<1> QED
  BY <1>3, <1>4, <1>5

\* The Connect that arrives is for a connection that was never here, and the
\* last one for it.
LEMMA ConnectIsNew ==
    ASSUME ConnType, TableInv, Arrives("listener", "Connect")
    PROVE  LET id == Head(net["listener"]).id
           IN  /\ id \in Ids /\ Pending(id)
               /\ ~Has("listener", id) /\ done["listener"][id] = 0
<1> DEFINE id == Head(net["listener"]).id
<1>1. /\ Head(net["listener"]) \in Messages /\ Head(net["listener"]) = net["listener"][1]
      /\ Len(net["listener"]) > 0
  BY TakenEffect DEF Arrives, Ends
<1>2. Len(net["listener"]) \in Nat
  BY LenProperties DEF ConnType, Ends
<1>3. id \in Ids /\ Pending(id)
  BY <1>1, <1>2 DEF Messages, Pending, Arrives
<1> QED
  BY <1>3 DEF TableInv

LEMMA TableConnect ==
    ASSUME ConnType, ConnType', TableInv, OnConnect PROVE TableInv'
<1> DEFINE id == Head(net["listener"]).id
           q == net["listener"]
           r == net'["listener"]
<1>1. id \in Ids /\ Pending(id) /\ ~Has("listener", id) /\ done["listener"][id] = 0
  BY ConnectIsNew DEF OnConnect
<1>2. "dialer" \in Ends /\ "listener" \in Ends
  BY DEF Ends
<1>3. /\ Len(q) > 0 /\ Len(r) = Len(q) - 1 /\ \A i \in 1 .. Len(q) - 1 : r[i] = q[i + 1]
      /\ q[1].cmd = "Connect" /\ q[1].id = id
  BY <1>2, TakenEffect DEF OnConnect, Arrives
<1>4. Len(q) \in Nat /\ Len(r) \in Nat
  BY <1>2, LenProperties DEF ConnType
<1>5. UNCHANGED <<done, app, dials>>
  BY DEF OnConnect
<1>6. \A f \in Ends, j \in Ids : Has(f, j)' <=> Has(f, j) \/ (f = "listener" /\ j = id)
  BY <1>1, <1>2, AddConnEffect DEF OnConnect
<1>7. \A i \in 1 .. Len(r) : i + 1 \in 1 .. Len(q) /\ r[i] = q[i + 1]
  BY <1>3, <1>4
<1>8. \A i, j \in 1 .. Len(q) :
         q[i].cmd = "Connect" /\ q[j].cmd = "Connect" /\ q[i].id = q[j].id => i = j
  BY DEF TableInv
<1>9. \A j \in Ids : Pending(j) <=> \E i \in 1 .. Len(q) : q[i].cmd = "Connect" /\ q[i].id = j
  BY DEF Pending
<1>10. \A j \in Ids : Pending(j)' <=> \E i \in 1 .. Len(r) : r[i].cmd = "Connect" /\ r[i].id = j
  BY DEF Pending
<1>11. app["dialer"][id] \notin {"none", "new", "added"}
  BY <1>1 DEF TableInv
<1> HIDE DEF q, r, id
<1>12. \A i, j \in 1 .. Len(r) :
          r[i].cmd = "Connect" /\ r[j].cmd = "Connect" /\ r[i].id = r[j].id => i = j
  BY <1>4, <1>7, <1>8
<1>13. \A j \in Ids : Pending(j)' => Pending(j) /\ j # id
  <2> SUFFICES ASSUME NEW j \in Ids, NEW i \in 1 .. Len(r), r[i].cmd = "Connect", r[i].id = j
               PROVE  Pending(j) /\ j # id
    BY <1>10
  <2>1. i + 1 \in 1 .. Len(q) /\ q[i + 1].cmd = "Connect" /\ q[i + 1].id = j
    BY <1>7
  <2>2. j # id
    <3>1. 1 \in 1 .. Len(q) /\ i + 1 # 1
      BY <1>3, <1>4
    <3> QED
      BY <1>3, <1>8, <2>1, <3>1
  <2> QED
    BY <1>9, <2>1, <2>2
<1> QED
  BY <1>1, <1>2, <1>5, <1>6, <1>11, <1>12, <1>13 DEF TableInv, r

\* Steps that leave the tables alone.
LEMMA TablesSame ==
    ASSUME ConnType, UNCHANGED <<lru, done, dropped, app, dials>>
    PROVE  TablesShrink /\ Remembers
<1>1. \A f \in Ends, j \in Ids : Has(f, j)' <=> Has(f, j)
  BY DEF Has
<1>2. \A f \in Ends, j \in Ids : done[f][j] \in Nat
  BY DEF ConnType
<1> QED
  BY <1>1, <1>2 DEF TablesShrink, Remembers

\* Those that call DelConn.
LEMMA TablesDel ==
    ASSUME ConnType, TableInv, NEW e \in Ends, NEW id \in Ids, DelConn(e, id), dials' = dials,
           \A j \in Ids : \/ app'["dialer"][j] = app["dialer"][j]
                          \/ {app["dialer"][j], app'["dialer"][j]} \cap {"none", "new", "added"} = {}
    PROVE  TablesShrink /\ Remembers
<1>1. /\ \A f \in Ends, j \in Ids : Has(f, j)' <=> Has(f, j) /\ ~(f = e /\ j = id)
      /\ \A f \in Ends, j \in Ids :
            done'[f][j] = IF f = e /\ j = id /\ Has(e, id) THEN done[f][j] + 1 ELSE done[f][j]
      /\ dropped' = dropped
  BY DelConnEffect
<1>2. \A f \in Ends, j \in Ids : done[f][j] \in Nat /\ (Has(f, j) => done[f][j] = 0)
  BY DEF ConnType, TableInv
<1> QED
  BY <1>1, <1>2 DEF TablesShrink, Remembers

\* All steps but those of a dial, the arrival of a Connect and Write.
LEMMA QuietSteps ==
    ASSUME ConnType, TableInv, NEW e \in Ends,
           \/ \E id \in Ids : CloseSend(e, id) \/ CloseDel(e, id)
           \/ Accept
           \/ OnDataGet(e) \/ OnRecv(e) \/ OnClose(e) \/ OnInstOffline
           \/ Tick \/ CheckExpired(e) \/ CheckSend(e) \/ CheckDel(e)
           \/ UNCHANGED vars
    PROVE  Adds({"Close"}) /\ TablesShrink /\ Remembers
<1>1. app \in [Ends -> [Ids -> AppStates]] /\ "dialer" \in Ends /\ "listener" \in Ends
  BY DEF ConnType, Ends
<1>3. ASSUME NEW id \in Ids, CloseSend(e, id)
      PROVE  Adds({"Close"}) /\ TablesShrink /\ Remembers
  <2>1. Adds({"Close"})
    BY <1>3, AddsClose DEF CloseSend
  <2>2. UNCHANGED <<lru, done, dropped, dials>> /\ app' = [app EXCEPT ![e][id] = "closing"]
    BY <1>3 DEF CloseSend, mgrVars
  <2>3. app[e][id] = "held"
    BY <1>3 DEF CloseSend
  <2>4. \A j \in Ids : \/ app'["dialer"][j] = app["dialer"][j]
                       \/ app["dialer"][j] = "held" /\ app'["dialer"][j] = "closing"
    BY <1>1, <2>2, <2>3
  <2>5. \A f \in Ends, j \in Ids : (Has(f, j)' <=> Has(f, j)) /\ done[f][j] \in Nat
    BY <2>2 DEF Has, ConnType
  <2> QED
    BY <2>1, <2>2, <2>4, <2>5 DEF TablesShrink, Remembers
<1>4. ASSUME NEW id \in Ids, CloseDel(e, id)
      PROVE  Adds({"Close"}) /\ TablesShrink /\ Remembers
  <2>1. Adds({"Close"})
    BY <1>4, AddsNothing DEF CloseDel, netVars
  <2>2. /\ DelConn(e, id) /\ dials' = dials /\ app[e][id] = "closing"
        /\ app' = [app EXCEPT ![e][id] = "closed"]
    BY <1>4 DEF CloseDel
  <2>3. \A j \in Ids : \/ app'["dialer"][j] = app["dialer"][j]
                       \/ app["dialer"][j] = "closing" /\ app'["dialer"][j] = "closed"
    BY <1>1, <2>2
  <2> QED
    BY <2>1, <2>2, <2>3, TablesDel
<1>5. CASE Accept
  <2>1. Adds({"Close"})
    BY <1>5, AddsNothing DEF Accept, netVars
  <2>2. UNCHANGED <<lru, done, dropped, dials>> /\ \A j \in Ids : app'["dialer"][j] = app["dialer"][j]
    BY <1>1, <1>5 DEF Accept, mgrVars
  <2>3. \A f \in Ends, j \in Ids : (Has(f, j)' <=> Has(f, j)) /\ done[f][j] \in Nat
    BY <2>2 DEF Has, ConnType
  <2> QED
    BY <2>1, <2>2, <2>3 DEF TablesShrink, Remembers
<1>6. CASE OnDataGet(e)
  <2> DEFINE m == Head(net[e])
  <2>1. net[e] # <<>> /\ m.id \in Ids
    BY <1>6, TakenEffect DEF OnDataGet, Arrives, Messages
  <2>2. CASE Has(e, m.id)
    <3>1. Adds({"Close"})
      BY <1>6, <2>1, <2>2, AddsTaken DEF OnDataGet
    <3>2. \A f \in Ends, j \in Ids : Has(f, j)' <=> Has(f, j)
      BY <1>6, <2>1, <2>2, GetConnEffect DEF OnDataGet
    <3>3. UNCHANGED <<done, dropped, app, dials>> /\ \A f \in Ends, j \in Ids : done[f][j] \in Nat
      BY <1>6 DEF OnDataGet, appVars, ConnType
    <3> QED
      BY <3>1, <3>2, <3>3 DEF TablesShrink, Remembers
  <2>3. CASE ~Has(e, m.id)
    <3>1. Post(e, Msg("Close", m.id), 1, Taken(e), 0) /\ UNCHANGED <<lru, done, dropped, app, dials>>
      BY <1>6, <2>3 DEF OnDataGet, appVars
    <3> HIDE DEF m
    <3>2. Adds({"Close"})
      BY <2>1, <3>1, AddsClose
    <3> QED
      BY <3>1, <3>2, TablesSame
  <2> QED
    BY <2>2, <2>3
<1>7. CASE OnRecv(e)
  <2> DEFINE m == work[e][1]
  <2>1. m.id \in Ids
    <3>1. work[e] \in Seq(Messages) /\ work[e] # <<>>
      BY <1>7 DEF OnRecv, ConnType
    <3>2. m \in Messages
      BY <3>1, EmptySeq, LenProperties, ElementOfSeq
    <3> QED
      BY <3>2 DEF Messages
  <2>2. /\ \/ net' = net \/ Post(e, Msg("Close", m.id), 1, net, 0)
           \/ Post(e, Msg("Close", m.id), 2, net, 0)
        /\ UNCHANGED <<lru, done, dropped, app, dials>>
    BY <1>7 DEF OnRecv, netVars, appVars
  <2> HIDE DEF m
  <2>3. Adds({"Close"})
    BY <2>1, <2>2, AddsClose, AddsNothing
  <2> QED
    BY <2>2, <2>3, TablesSame
<1>8. CASE OnClose(e)
  <2>1. net[e] # <<>> /\ Head(net[e]).id \in Ids
    BY <1>8, TakenEffect DEF OnClose, Arrives, Messages
  <2>2. Adds({"Close"})
    BY <1>8, <2>1, AddsTaken DEF OnClose
  <2> QED
    BY <1>8, <2>1, <2>2, TablesDel DEF OnClose, appVars
<1>9. CASE OnInstOffline
  <2>1. Adds({"Close"})
    BY <1>9, AddsNothing DEF OnInstOffline
  <2>2. /\ lru' = [lru EXCEPT !["listener"] = <<>>]
        /\ dropped' = [dropped EXCEPT !["listener"] = @ \cup Range(lru["listener"])]
        /\ UNCHANGED <<done, app, dials>>
    BY <1>9 DEF OnInstOffline, Forget, appVars
  <2>3. lru \in [Ends -> Seq(Ids)] /\ dropped \in [Ends -> SUBSET Ids]
        /\ \A f \in Ends, j \in Ids : done[f][j] \in Nat
    BY DEF ConnType
  <2>4. \A j \in Ids : Has("dialer", j)' <=> Has("dialer", j)
    BY <1>1, <2>2, <2>3 DEF Has
  <2>5. \A j \in Ids : ~Has("listener", j)'
    BY <1>1, <2>2, <2>3 DEF Has
  <2>6. \A j \in Ids : Has("listener", j) => j \in dropped'["listener"]
    <3>1. lru["listener"] \in Seq(Ids)
      BY <1>1, <2>3
    <3>2. \A j \in Ids : Has("listener", j) => j \in Range(lru["listener"])
      BY <3>1 DEF Has, Range
    <3>3. dropped'["listener"] = dropped["listener"] \cup Range(lru["listener"])
      BY <1>1, <2>2, <2>3
    <3> QED
      BY <3>2, <3>3
  <2>7. \A f \in Ends, j \in Ids : j \in dropped[f] => j \in dropped'[f]
    BY <1>1, <2>2, <2>3
  <2>8. \A f \in Ends : f = "dialer" \/ f = "listener"
    BY DEF Ends
  <2> QED
    BY <2>1, <2>2, <2>3, <2>4, <2>5, <2>6, <2>7, <2>8 DEF TablesShrink, Remembers
<1>10. CASE Tick \/ CheckExpired(e) \/ UNCHANGED vars
  <2>1. UNCHANGED <<net, lru, done, dropped, app, dials>>
    BY <1>10 DEF Tick, CheckExpired, vars, netVars, mgrVars, appVars
  <2> QED
    BY <2>1, AddsNothing, TablesSame
<1>11. CASE CheckSend(e)
  <2>1. Head(chk[e]) \in Ids
    BY <1>11, HeadTailProperties DEF CheckSend, ConnType
  <2>2. /\ Post(e, Msg("Close", Head(chk[e])), 1, net, 0)
        /\ UNCHANGED <<lru, done, dropped, app, dials>>
    BY <1>11 DEF CheckSend, mgrVars, appVars
  <2> QED
    BY <2>1, <2>2, AddsClose, TablesSame
<1>12. CASE CheckDel(e)
  <2>1. Head(chk[e]) \in Ids
    BY <1>12, HeadTailProperties DEF CheckDel, ConnType
  <2>2. DelConn(e, Head(chk[e])) /\ UNCHANGED <<net, app, dials>>
    BY <1>12 DEF CheckDel, netVars, appVars
  <2> QED
    BY <2>1, <2>2, AddsNothing, TablesDel
<1> QED
  BY <1>3, <1>4, <1>5, <1>6, <1>7, <1>8, <1>9, <1>10, <1>11, <1>12

LEMMA WriteStep ==
    ASSUME ConnType, NEW e \in Ends, NEW id \in Ids, Write(e, id)
    PROVE  Adds({"Data", "Close"}) /\ TablesShrink /\ Remembers
<1> DEFINE m == [cmd |-> "Data", id |-> id, seq |-> sendSeq[e][id], data |-> budget]
<1>1. m \in Messages /\ m.cmd = "Data"
  BY DEF Messages, ConnType
<1>2. (Post(e, m, 1, net, 1) \/ net' = net) /\ UNCHANGED <<lru, done, dropped, app, dials>>
  BY DEF Write, Fails, mgrVars
<1> HIDE DEF m
<1>3. Adds({"Data", "Close"})
  <2>1. CASE net' = net
    BY <2>1, AddsNothing
  <2>2. CASE Post(e, m, 1, net, 1)
    <3>1. Adds({m.cmd})
      BY <1>1, <2>2, AddsPost
    <3> QED
      BY <1>1, <3>1, AddsMore
  <2> QED
    BY <1>2, <2>1, <2>2
<1> QED
  BY <1>2, <1>3, TablesSame

\* A case for each goroutine.
LEMMA NextCases ==
    ASSUME [Next]_vars
    PROVE  \/ DialNew
           \/ \E id \in Ids : DialAdd(id) \/ DialConnect(id)
           \/ OnConnect
           \/ \E e \in Ends, id \in Ids : Write(e, id)
           \/ \E e \in Ends :
                 \/ \E id \in Ids : CloseSend(e, id) \/ CloseDel(e, id)
                 \/ Accept
                 \/ OnDataGet(e) \/ OnRecv(e) \/ OnClose(e) \/ OnInstOffline
                 \/ Tick \/ CheckExpired(e) \/ CheckSend(e) \/ CheckDel(e)
                 \/ UNCHANGED vars
<1>1. "dialer" \in Ends
  BY DEF Ends
<1> QED
  BY <1>1, Zenon DEF Next, Calls, Service, Checker

LEMMA TypeStep == ASSUME ConnType, TableInv, [Next]_vars PROVE ConnType'
<1>1. CASE DialNew
  BY <1>1, TypeApp DEF Ends
<1>2. ASSUME NEW id \in Ids, DialAdd(id) \/ DialConnect(id) PROVE ConnType'
  <2>1. DialAdd(id) => ~Has("dialer", id)
    BY DEF DialAdd, TableInv
  <2> QED
    BY <1>2, <2>1, TypeApp, TypeTables DEF Ends
<1>3. CASE OnConnect
  <2>1. ~Has("listener", Head(net["listener"]).id)
    BY <1>3, ConnectIsNew DEF OnConnect
  <2> QED
    BY <1>3, <2>1, TypeMessages DEF Ends
<1>4. ASSUME NEW e \in Ends, NEW id \in Ids, Write(e, id) PROVE ConnType'
  BY <1>4, TypeApp
<1>5. CASE Tick
  BY <1>5 DEF Tick, ConnType, netVars, connVars, appVars, chkVars
<1>6. CASE UNCHANGED vars
  BY <1>6 DEF vars, ConnType, netVars, connVars, mgrVars, appVars, chkVars
<1>7. ASSUME NEW e \in Ends,
             \/ \E id \in Ids : CloseSend(e, id) \/ CloseDel(e, id)
             \/ Accept
             \/ OnDataGet(e) \/ OnRecv(e) \/ OnClose(e) \/ OnInstOffline
             \/ CheckExpired(e) \/ CheckSend(e) \/ CheckDel(e)
      PROVE  ConnType'
  BY <1>7, TypeApp, TypeTables, TypeMessages
<1> QED
  BY <1>1, <1>2, <1>3, <1>4, <1>5, <1>6, <1>7, NextCases

LEMMA TableStep == ASSUME ConnType, ConnType', TableInv, [Next]_vars PROVE TableInv'
<1>1. CASE DialNew
  <2>1. dials' \in Ids
    BY <1>1, ConnBounds DEF DialNew, ConnType, Ids
  <2> QED
    BY <1>1, <2>1, TableDial
<1>2. ASSUME NEW id \in Ids, DialAdd(id) \/ DialConnect(id) PROVE TableInv'
  BY <1>2, TableDial
<1>3. CASE OnConnect
  BY <1>3, TableConnect
<1>4. ASSUME NEW e \in Ends, NEW id \in Ids, Write(e, id) PROVE TableInv'
  BY <1>4, WriteStep, TableQuiet
<1>5. ASSUME NEW e \in Ends,
             \/ \E id \in Ids : CloseSend(e, id) \/ CloseDel(e, id)
             \/ Accept
             \/ OnDataGet(e) \/ OnRecv(e) \/ OnClose(e) \/ OnInstOffline
             \/ Tick \/ CheckExpired(e) \/ CheckSend(e) \/ CheckDel(e)
             \/ UNCHANGED vars
      PROVE  TableInv'
  <2>1. Adds({"Close"}) /\ TablesShrink
    BY <1>5, QuietSteps
  <2>2. Adds({"Data", "Close"})
    BY <2>1, AddsMore
  <2> QED
    BY <2>1, <2>2, TableQuiet
<1> QED
  BY <1>1, <1>2, <1>3, <1>4, <1>5, NextCases

\* No done is closed twice, whoever closes the connection: the application,
\* the checker or the peer.
THEOREM DoneIsClosedOnce == Spec => []DoneClosedOnce
<1>1. TableInv => DoneClosedOnce
  BY DEF TableInv, DoneClosedOnce
<1>2. ConnType /\ TableInv /\ [Next]_vars => (ConnType /\ TableInv)'
  BY TypeStep, TableStep
<1> QED
  BY <1>1, <1>2, TypeInit, TableInit, PTL DEF Spec

-----------------------------------------------------------------------------
(* Connections that have left the tables.                                  *)

\* The listener's connection is in its table, or done is closed, or
\* OnInstOffline took it.
Kept(id) == Has("listener", id) \/ done["listener"][id] > 0 \/ id \in dropped["listener"]

\* It waits for an Accept.
InBacklog(id) == \E i \in 1 .. Len(connected) : connected[i] = id

\* RemovedIsClosed, and the same for the connections that wait in `connected'
\* for an Accept.
KeptInv ==
    /\ \A id \in Ids : app["dialer"][id] \notin {"none", "new"} =>
                          Has("dialer", id) \/ done["dialer"][id] > 0
    /\ \A id \in Ids : app["listener"][id] # "none" => Kept(id)
    /\ \A id \in Ids : InBacklog(id) => Kept(id)

LEMMA KeptInit == Init => KeptInv
<1> SUFFICES ASSUME Init PROVE KeptInv
  OBVIOUS
<1>1. \A e \in Ends, id \in Ids : app[e][id] = "none"
  BY DEF Init
<1>2. Len(connected) = 0
  BY DEF Init
<1> QED
  BY <1>1, <1>2 DEF KeptInv, InBacklog, Ends

\* Every step remembers.
LEMMA RememberStep == ASSUME ConnType, TableInv, [Next]_vars PROVE Remembers
<1>1. \A f \in Ends, j \in Ids : done[f][j] \in Nat
  BY DEF ConnType
<1>2. CASE DialNew \/ \E id \in Ids : DialConnect(id)
  <2>1. UNCHANGED <<lru, done, dropped>>
    BY <1>2 DEF DialNew, DialConnect, mgrVars
  <2>2. \A f \in Ends, j \in Ids : Has(f, j)' <=> Has(f, j)
    BY <2>1 DEF Has
  <2> QED
    BY <1>1, <2>1, <2>2 DEF Remembers
<1>3. ASSUME NEW id \in Ids, DialAdd(id) PROVE Remembers
  <2>1. ~Has("dialer", id) /\ AddConn("dialer", id) /\ UNCHANGED <<done, dropped>>
    BY <1>3 DEF DialAdd, TableInv
  <2>2. \A f \in Ends, j \in Ids : Has(f, j) => Has(f, j)'
    BY <2>1, AddConnEffect DEF Ends
  <2> QED
    BY <1>1, <2>1, <2>2 DEF Remembers
<1>4. CASE OnConnect
  <2> DEFINE id == Head(net["listener"]).id
  <2>1. id \in Ids /\ ~Has("listener", id)
    BY <1>4, ConnectIsNew DEF OnConnect
  <2>2. AddConn("listener", id) /\ UNCHANGED <<done, dropped>>
    BY <1>4 DEF OnConnect
  <2> HIDE DEF id
  <2>3. \A f \in Ends, j \in Ids : Has(f, j) => Has(f, j)'
    BY <2>1, <2>2, AddConnEffect DEF Ends
  <2> QED
    BY <1>1, <2>2, <2>3 DEF Remembers
<1> QED
  BY <1>2, <1>3, <1>4, QuietSteps, WriteStep, NextCases

\* A step that gives no connection to an application, nor promises it one.
LEMMA KeptSame ==
    ASSUME ConnType, KeptInv, Remembers, connected' = connected,
           \A j \in Ids : app'["dialer"][j] \notin {"none", "new"} =>
                             app["dialer"][j] \notin {"none", "new"},
           \A j \in Ids : app'["listener"][j] # "none" => app["listener"][j] # "none",
           ConnType'
    PROVE  KeptInv'
<1>1. \A j \in Ids : Kept(j) => Kept(j)'
  <2>1. \A j \in Ids : done["listener"][j] \in Nat /\ done'["listener"][j] \in Nat
    BY DEF ConnType, Ends
  <2> QED
    BY <2>1 DEF Kept, Remembers, Ends
<1>2. \A j \in Ids : Has("dialer", j) \/ done["dialer"][j] > 0 =>
                     Has("dialer", j)' \/ done'["dialer"][j] > 0
  <2>1. \A j \in Ids : done["dialer"][j] \in Nat /\ done'["dialer"][j] \in Nat
    BY DEF ConnType, Ends
  <2> QED
    BY <2>1 DEF Remembers, Ends
<1>3. \A j \in Ids : InBacklog(j)' <=> InBacklog(j)
  BY DEF InBacklog
<1> QED
  BY <1>1, <1>2, <1>3 DEF KeptInv

LEMMA KeptStep ==
    ASSUME ConnType, ConnType', TableInv, KeptInv, [Next]_vars PROVE KeptInv'
<1> DEFINE Same == /\ connected' = connected
                   /\ \A j \in Ids : app'["dialer"][j] \notin {"none", "new"} =>
                                        app["dialer"][j] \notin {"none", "new"}
                   /\ \A j \in Ids : app'["listener"][j] # "none" => app["listener"][j] # "none"
<1>1. Remembers
  BY RememberStep
<1>2. app \in [Ends -> [Ids -> AppStates]] /\ "dialer" \in Ends /\ "listener" \in Ends
  BY DEF ConnType, Ends
<1>3. \A j \in Ids : Kept(j) => Kept(j)'
  <2>1. \A j \in Ids : done["listener"][j] \in Nat /\ done'["listener"][j] \in Nat
    BY <1>2 DEF ConnType
  <2> QED
    BY <1>1, <1>2, <2>1 DEF Kept, Remembers
<1>4. \A j \in Ids : Has("dialer", j) \/ done["dialer"][j] > 0 =>
                     Has("dialer", j)' \/ done'["dialer"][j] > 0
  <2>1. \A j \in Ids : done["dialer"][j] \in Nat /\ done'["dialer"][j] \in Nat
    BY <1>2 DEF ConnType
  <2> QED
    BY <1>1, <1>2, <2>1 DEF Remembers
<1>5. connected' = connected => \A j \in Ids : InBacklog(j)' <=> InBacklog(j)
  BY DEF InBacklog
<1>6. CASE DialNew
  <2>1. dials' \in Ids /\ connected' = connected /\ app' = [app EXCEPT !["dialer"][dials'] = "new"]
    BY <1>6, ConnBounds DEF DialNew, ConnType, Ids
  <2>2. Same
    BY <1>2, <2>1
  <2> QED
    BY <1>1, <2>2, KeptSame
<1>7. ASSUME NEW id \in Ids, DialAdd(id) PROVE KeptInv'
  <2>1. /\ ~Has("dialer", id) /\ AddConn("dialer", id) /\ connected' = connected
        /\ app' = [app EXCEPT !["dialer"][id] = "added"]
    BY <1>7 DEF DialAdd, TableInv
  <2>2. Has("dialer", id)'
    BY <1>2, <2>1, AddConnEffect
  <2>3. /\ \A j \in Ids : j # id => app'["dialer"][j] = app["dialer"][j]
        /\ \A j \in Ids : app'["listener"][j] = app["listener"][j]
    BY <1>2, <2>1
  <2> QED
    BY <1>3, <1>4, <1>5, <2>1, <2>2, <2>3 DEF KeptInv
<1>8. ASSUME NEW id \in Ids, DialConnect(id) PROVE KeptInv'
  <2>1. /\ app["dialer"][id] = "added" /\ connected' = connected
        /\ \E a \in {"held", "failed"} : app' = [app EXCEPT !["dialer"][id] = a]
    BY <1>8 DEF DialConnect
  <2>2. Same
    BY <1>2, <2>1
  <2> QED
    BY <1>1, <2>2, KeptSame
<1>9. CASE OnConnect
  <2> DEFINE id == Head(net["listener"]).id
  <2>1. id \in Ids /\ ~Has("listener", id)
    BY <1>9, ConnectIsNew DEF OnConnect
  <2>2. /\ AddConn("listener", id) /\ app' = app
        /\ connected' = connected \/ connected' = Append(connected, id)
    BY <1>9 DEF OnConnect
  <2> HIDE DEF id
  <2>3. \A j \in Ids : j = id => Has("listener", j)'
    BY <1>2, <2>1, <2>2, AddConnEffect
  <2>4. \A i \in 1 .. Len(connected') :
           (i \in 1 .. Len(connected) /\ connected'[i] = connected[i]) \/ connected'[i] = id
    <3>1. connected \in Seq(Ids) /\ Len(connected) \in Nat
      BY LenProperties DEF ConnType
    <3> QED
      BY <2>1, <2>2, <3>1, AppendProperties
  <2>5. \A j \in Ids : InBacklog(j)' => InBacklog(j) \/ j = id
    BY <2>4 DEF InBacklog
  <2>6. \A j \in Ids : InBacklog(j)' => Kept(j)'
    BY <1>3, <2>3, <2>5 DEF KeptInv, Kept
  <2> QED
    BY <1>3, <1>4, <2>2, <2>6 DEF KeptInv
<1>10. CASE Accept
  <2> DEFINE id == Head(connected)
  <2>1. connected \in Seq(Ids) /\ connected # <<>> /\ Len(connected) \in Nat \ {0}
    BY <1>10, EmptySeq DEF Accept, ConnType
  <2>2. id \in Ids /\ InBacklog(id)
    BY <2>1, HeadTailProperties DEF InBacklog
  <2>3. \A i \in 1 .. Len(connected') :
           i + 1 \in 1 .. Len(connected) /\ connected'[i] = connected[i + 1]
    BY <1>10, <2>1, HeadTailProperties DEF Accept
  <2>4. app' = [app EXCEPT !["listener"][id] = "held"]
    BY <1>10 DEF Accept
  <2> HIDE DEF id
  <2>5. /\ \A j \in Ids : j # id => app'["listener"][j] = app["listener"][j]
        /\ \A j \in Ids : app'["dialer"][j] = app["dialer"][j]
    BY <1>2, <2>2, <2>4
  <2>6. \A j \in Ids : InBacklog(j)' => InBacklog(j)
    BY <2>3 DEF InBacklog
  <2> QED
    BY <1>3, <1>4, <2>2, <2>5, <2>6 DEF KeptInv
<1>11. ASSUME NEW e \in Ends, NEW id \in Ids, CloseSend(e, id) \/ CloseDel(e, id) PROVE KeptInv'
  <2>1. /\ app[e][id] \in {"held", "closing"} /\ connected' = connected
        /\ \E a \in {"closing", "closed"} : app' = [app EXCEPT ![e][id] = a]
    BY <1>11 DEF CloseSend, CloseDel
  <2>2. Same
    BY <1>2, <2>1
  <2> QED
    BY <1>1, <2>2, KeptSame
<1>12. ASSUME NEW e \in Ends,
              \/ \E id \in Ids : Write(e, id)
              \/ OnDataGet(e) \/ OnRecv(e) \/ OnClose(e) \/ OnInstOffline
              \/ Tick \/ CheckExpired(e) \/ CheckSend(e) \/ CheckDel(e)
              \/ UNCHANGED vars
       PROVE  KeptInv'
  <2>1. UNCHANGED <<connected, app>>
    BY <1>12 DEF Write, OnDataGet, OnRecv, OnClose, OnInstOffline, Tick, CheckExpired, CheckSend,
                 CheckDel, vars, appVars
  <2> QED
    BY <1>1, <2>1, KeptSame
<1> QED
  BY <1>6, <1>7, <1>8, <1>9, <1>10, <1>11, <1>12, NextCases

\* A connection that its ConnMgr has forgotten has done closed, unless the
\* listener's OnInstOffline forgot it.
THEOREM RemovedConnIsClosed == Spec => []RemovedIsClosed
<1>1. KeptInv => RemovedIsClosed
  BY DEF KeptInv, Kept, RemovedIsClosed
<1>2. ConnType /\ TableInv /\ KeptInv /\ [Next]_vars => (ConnType /\ TableInv /\ KeptInv)'
  BY TypeStep, TableStep, KeptStep
<1> QED
  BY <1>1, <1>2, TypeInit, TableInit, KeptInit, PTL DEF Spec

-----------------------------------------------------------------------------
(* The streams.                                                            *)

\* A data message to e is what the peer's Write accepted at its number.
Matches(e, m) ==
    LET s == sent[Peer(e)][m.id] IN m.seq < Len(s) /\ m.data = s[m.seq + 1]

Working(e, id) == work[e] # <<>> /\ work[e][1].id = id

SendersCount == \A e \in Ends, id \in Ids : sendSeq[e][id] = Len(sent[e][id])

DataMatches ==
    \A e \in Ends :
       /\ \A i \in 1 .. Len(net[e]) : net[e][i].cmd = "Data" => Matches(e, net[e][i])
       /\ work[e] # <<>> => Matches(e, work[e][1])

\* recvSeq counts what was put, until a Put fails: done is closed then, and no
\* message will find the connection again.
ReceiversCount ==
    \A e \in Ends, id \in Ids :
       recvSeq[e][id] = Len(got[e][id]) \/ (done[e][id] > 0 /\ ~Working(e, id))

\* StreamPrefix, element by element.
Streams ==
    \A e \in Ends, id \in Ids :
       /\ Len(got[e][id]) <= Len(sent[Peer(e)][id])
       /\ \A i \in 1 .. Len(got[e][id]) : got[e][id][i] = sent[Peer(e)][id][i]

StreamInv == SendersCount /\ DataMatches /\ ReceiversCount /\ Streams

LEMMA StreamInit == Init => StreamInv
<1> SUFFICES ASSUME Init PROVE StreamInv
  OBVIOUS
<1>1. \A e \in Ends : Len(net[e]) = 0 /\ work[e] = <<>>
  BY DEF Init
<1>2. \A e \in Ends, id \in Ids :
         /\ sendSeq[e][id] = 0 /\ recvSeq[e][id] = 0
         /\ Len(sent[e][id]) = 0 /\ Len(got[e][id]) = 0
  BY DEF Init
<1> QED
  BY <1>1, <1>2, PeerType DEF StreamInv, SendersCount, DataMatches, ReceiversCount, Streams

LEMMA WorkType ==
    ASSUME ConnType, NEW e \in Ends, work[e] # <<>>
    PROVE  work[e][1] \in Messages /\ work[e][1].id \in Ids
<1>1. work[e] \in Seq(Messages)
  BY DEF ConnType
<1>2. work[e][1] \in Messages
  BY <1>1, EmptySeq, LenProperties, ElementOfSeq
<1> QED
  BY <1>2 DEF Messages

\* The data under way still matches after a step that adds none.
LEMMA NetMatches ==
    ASSUME DataMatches, Adds({"Close", "Connect"}), sent' = sent, NEW e \in Ends
    PROVE  \A i \in 1 .. Len(net'[e]) : net'[e][i].cmd = "Data" => Matches(e, net[e][i])'
<1>1. PICK d \in {0, 1} : \A i \in 1 .. Len(net'[e]) :
         (i + d \in 1 .. Len(net[e]) /\ net'[e][i] = net[e][i + d])
         \/ net'[e][i].cmd \in {"Close", "Connect"}
  BY DEF Adds
<1>2. \A i \in 1 .. Len(net'[e]) : net'[e][i].cmd = "Data" =>
         i + d \in 1 .. Len(net[e]) /\ net'[e][i] = net[e][i + d]
  BY <1>1
<1> QED
  BY <1>2 DEF DataMatches, Matches

\* Steps that neither write nor read.
LEMMA StreamSame ==
    ASSUME ConnType, ConnType', StreamInv, Adds({"Close", "Connect"}), Remembers,
           UNCHANGED <<connVars, work>>
    PROVE  StreamInv'
<1>1. \A e \in Ends, id \in Ids : done[e][id] \in Nat /\ done'[e][id] \in Nat
  BY DEF ConnType
<1>2. \A e \in Ends, id \in Ids : Working(e, id)' <=> Working(e, id)
  BY DEF Working
<1>3. SendersCount' /\ Streams'
  BY DEF StreamInv, SendersCount, Streams, connVars
<1>4. ReceiversCount'
  BY <1>1, <1>2 DEF StreamInv, ReceiversCount, Remembers, connVars
<1>5. DataMatches'
  <2>1. \A e \in Ends : work'[e] # <<>> => Matches(e, work[e][1])'
    BY DEF StreamInv, DataMatches, Matches, connVars
  <2>2. \A e \in Ends : \A i \in 1 .. Len(net'[e]) :
           net'[e][i].cmd = "Data" => Matches(e, net[e][i])'
    BY NetMatches DEF StreamInv, connVars
  <2> QED
    BY <2>1, <2>2 DEF DataMatches
<1> QED
  BY <1>3, <1>4, <1>5 DEF StreamInv

LEMMA StreamWrite ==
    ASSUME ConnType, ConnType', StreamInv, NEW e \in Ends, NEW id \in Ids, Write(e, id)
    PROVE  StreamInv'
<1> DEFINE m == [cmd |-> "Data", id |-> id, seq |-> sendSeq[e][id], data |-> budget]
<1>1. CASE Fails(1) /\ UNCHANGED <<sendSeq, sent>>
  <2>1. net' = net /\ UNCHANGED <<connVars, work>>
    BY <1>1 DEF Fails, Write, connVars
  <2>2. Adds({"Close", "Connect"}) /\ Remembers
    BY <2>1, AddsNothing, WriteStep
  <2> QED
    BY <2>1, <2>2, StreamSame
<1>2. CASE /\ Post(e, m, 1, net, 1)
           /\ sendSeq' = [sendSeq EXCEPT ![e][id] = @ + 1]
           /\ sent' = [sent EXCEPT ![e][id] = Append(@, budget)]
  <2>1. UNCHANGED <<recvSeq, got, done, work>>
    BY DEF Write, mgrVars
  <2>2. /\ sendSeq \in [Ends -> [Ids -> Nat]] /\ sent \in [Ends -> [Ids -> Seq(Nat)]]
        /\ budget \in Nat /\ net \in [Ends -> Seq(Messages)]
    BY DEF ConnType
  <2>3. m \in Messages
    BY <2>2 DEF Messages
  <2> DEFINE s == sent[e][id]
             t == Append(s, budget)
  <2>4. /\ s \in Seq(Nat) /\ Len(s) \in Nat /\ Len(t) = Len(s) + 1 /\ t[Len(s) + 1] = budget
        /\ \A i \in 1 .. Len(s) : t[i] = s[i]
    BY <2>2, AppendProperties, LenProperties
  <2>5. /\ sent'[e][id] = t /\ sendSeq'[e][id] = sendSeq[e][id] + 1
        /\ \A f \in Ends, j \in Ids : ~(f = e /\ j = id) =>
              sent'[f][j] = sent[f][j] /\ sendSeq'[f][j] = sendSeq[f][j]
    <3> HIDE DEF t
    <3>1. sent' = [sent EXCEPT ![e][id] = t]
      BY <1>2 DEF t
    <3> QED
      BY <1>2, <2>2, <3>1
  <2> HIDE DEF t, s
  <2>6. s = sent[e][id]
    BY DEF s
  <2>7. \A f \in Ends, j \in Ids :
           /\ Len(sent[f][j]) \in Nat /\ Len(sent'[f][j]) \in Nat
           /\ Len(sent[f][j]) <= Len(sent'[f][j])
           /\ \A i \in 1 .. Len(sent[f][j]) : sent'[f][j][i] = sent[f][j][i]
    <3> SUFFICES ASSUME NEW f \in Ends, NEW j \in Ids
                 PROVE  /\ Len(sent[f][j]) \in Nat /\ Len(sent'[f][j]) \in Nat
                        /\ Len(sent[f][j]) <= Len(sent'[f][j])
                        /\ \A i \in 1 .. Len(sent[f][j]) : sent'[f][j][i] = sent[f][j][i]
      OBVIOUS
    <3>1. CASE f = e /\ j = id
      BY <2>4, <2>5, <2>6, <3>1
    <3>2. CASE ~(f = e /\ j = id)
      BY <2>2, <2>5, <3>2, LenProperties, SMTT(30)
    <3> QED
      BY <3>1, <3>2
  <2>8. SendersCount'
    BY <2>4, <2>5, <2>6 DEF StreamInv, SendersCount
  <2>9. Streams'
    <3> SUFFICES ASSUME NEW f \in Ends, NEW j \in Ids
                 PROVE  /\ Len(got[f][j]) <= Len(sent'[Peer(f)][j])
                        /\ \A i \in 1 .. Len(got[f][j]) : got[f][j][i] = sent'[Peer(f)][j][i]
      BY <2>1 DEF Streams
    <3>1. got[f][j] \in Seq(Nat)
      BY DEF ConnType
    <3>2. Len(got[f][j]) \in Nat /\ Peer(f) \in Ends
      BY <3>1, PeerType, LenProperties
    <3>3. /\ Len(got[f][j]) <= Len(sent[Peer(f)][j])
          /\ \A i \in 1 .. Len(got[f][j]) : got[f][j][i] = sent[Peer(f)][j][i]
      BY DEF StreamInv, Streams
    <3> QED
      BY <2>7, <3>2, <3>3
  <2>10. ReceiversCount'
    BY <2>1 DEF StreamInv, ReceiversCount, Working
  <2>11. \A f \in Ends, k \in Messages : Matches(f, k) => Matches(f, k)'
    <3> SUFFICES ASSUME NEW f \in Ends, NEW k \in Messages, Matches(f, k) PROVE Matches(f, k)'
      OBVIOUS
    <3>1. Peer(f) \in Ends /\ k.id \in Ids /\ k.seq \in Nat
      BY PeerType DEF Messages
    <3>2. k.seq < Len(sent[Peer(f)][k.id]) /\ k.data = sent[Peer(f)][k.id][k.seq + 1]
      BY DEF Matches
    <3>3. Len(sent[Peer(f)][k.id]) \in Nat
      BY <2>7, <3>1
    <3>4. k.seq + 1 \in 1 .. Len(sent[Peer(f)][k.id])
      BY <3>1, <3>2, <3>3
    <3>5. k.seq < Len(sent'[Peer(f)][k.id]) /\ k.data = sent'[Peer(f)][k.id][k.seq + 1]
      BY <2>7, <3>1, <3>2, <3>4, SMTT(30)
    <3> QED
      BY <3>5 DEF Matches
  <2>12. \A k : k = m => Matches(Peer(e), k)'
    <3>1. m.id = id /\ m.seq = Len(s) /\ m.data = budget
      BY <2>6 DEF StreamInv, SendersCount
    <3>2. Peer(Peer(e)) = e
      BY PeerType
    <3> QED
      BY <2>4, <2>5, <3>1, <3>2 DEF Matches
  <2> HIDE DEF m
  <2>13. DataMatches'
    <3>1. Posted(e, m, 1, net)
      BY <1>2, <2>2, <2>3, PostEffect
    <3>2. \A f \in Ends : f = e \/ f = Peer(e)
      BY DEF Ends, Peer
    <3>3. \A f \in Ends : \A i \in 1 .. Len(net'[f]) :
             (i \in 1 .. Len(net[f]) /\ net'[f][i] = net[f][i]) \/ (f = Peer(e) /\ net'[f][i] = m)
      <4>1. \A f \in Ends : Len(net[f]) \in Nat /\ Len(net'[f]) \in Nat
        BY LenProperties DEF ConnType
      <4>2. \A i \in 1 .. Len(net'[e]) : i \in 1 .. Len(net[e]) /\ net'[e][i] = net[e][i]
        BY <3>1 DEF Posted
      <4>3. \A i \in 1 .. Len(net'[Peer(e)]) :
               \/ i <= Len(net[Peer(e)]) /\ net'[Peer(e)][i] = net[Peer(e)][i]
               \/ net'[Peer(e)][i] = m
        BY <3>1 DEF Posted
      <4>4. \A i \in 1 .. Len(net'[Peer(e)]) :
               \/ i \in 1 .. Len(net[Peer(e)]) /\ net'[Peer(e)][i] = net[Peer(e)][i]
               \/ net'[Peer(e)][i] = m
        BY <4>1, <4>3, PeerType
      <4> QED
        BY <3>2, <4>2, <4>4
    <3>4. \A f \in Ends : \A i \in 1 .. Len(net[f]) : net[f][i] \in Messages
      BY ElementOfSeq DEF ConnType
    <3>5. ASSUME NEW f \in Ends, NEW i \in 1 .. Len(net'[f]), net'[f][i].cmd = "Data",
                 NEW k, k = net'[f][i]
          PROVE  Matches(f, k)'
      <4>1. CASE i \in 1 .. Len(net[f]) /\ net'[f][i] = net[f][i]
        <5>1. k \in Messages /\ Matches(f, k)
          BY <3>4, <3>5, <4>1 DEF StreamInv, DataMatches
        <5> QED
          BY <2>11, <5>1
      <4>2. CASE f = Peer(e) /\ net'[f][i] = m
        BY <2>12, <3>5, <4>2
      <4> QED
        BY <3>3, <4>1, <4>2
    <3>6. \A f \in Ends : work[f] # <<>> => work[f][1] \in Messages
      BY WorkType
    <3>7. ASSUME NEW f \in Ends, work'[f] # <<>>, NEW k, k = work'[f][1] PROVE Matches(f, k)'
      BY <2>1, <2>11, <3>6, <3>7 DEF StreamInv, DataMatches
    <3> QED
      BY <3>5, <3>7 DEF DataMatches, Matches
  <2> QED
    BY <2>8, <2>9, <2>10, <2>13 DEF StreamInv
<1> QED
  BY <1>1, <1>2 DEF Write

\* OnMessage has found the connection: none of its Puts has failed.
LEMMA StreamGet ==
    ASSUME ConnType, ConnType', TableInv, StreamInv, NEW e \in Ends, OnDataGet(e)
    PROVE  StreamInv'
<1> DEFINE m == Head(net[e])
<1>1. Adds({"Close", "Connect"}) /\ Remembers
  BY QuietSteps, AddsMore
<1>2. UNCHANGED <<connVars, done>>
  BY DEF OnDataGet
<1>3. net[e] # <<>> /\ m.cmd = "Data"
  BY DEF OnDataGet, Arrives
<1>4. m \in Messages /\ m.id \in Ids /\ m = net[e][1] /\ Len(net[e]) > 0
  BY <1>3, TakenEffect DEF Messages
<1>5. CASE ~Has(e, m.id)
  BY <1>1, <1>2, <1>5, StreamSame DEF OnDataGet
<1>6. CASE Has(e, m.id)
  <2>1. work' = [work EXCEPT ![e] = <<m>>]
    BY <1>6 DEF OnDataGet
  <2>2. Matches(e, m)
    <3>1. Len(net[e]) \in Nat
      BY LenProperties DEF ConnType
    <3>2. 1 \in 1 .. Len(net[e])
      BY <1>4, <3>1
    <3> QED
      BY <1>3, <1>4, <3>2 DEF StreamInv, DataMatches
  <2> HIDE DEF m
  <2>3. work'[e] = <<m>> /\ \A f \in Ends : f # e => work'[f] = work[f]
    BY <2>1 DEF ConnType
  <2>4. \A f \in Ends, j \in Ids : Working(f, j)' => Working(f, j) \/ (f = e /\ j = m.id)
    BY <2>3 DEF Working
  <2>5. recvSeq[e][m.id] = Len(got[e][m.id])
    BY <1>4, <1>6 DEF StreamInv, ReceiversCount, TableInv
  <2>6. ReceiversCount'
    <3>1. ASSUME NEW f \in Ends, NEW j \in Ids
          PROVE  recvSeq'[f][j] = Len(got'[f][j]) \/ (done'[f][j] > 0 /\ ~Working(f, j)')
      <4>1. CASE f = e /\ j = m.id
        BY <1>2, <2>5, <4>1 DEF connVars
      <4>2. CASE ~(f = e /\ j = m.id)
        BY <1>2, <2>4, <4>2 DEF connVars, StreamInv, ReceiversCount
      <4> QED
        BY <4>1, <4>2
    <3> QED
      BY <3>1 DEF ReceiversCount
  <2>7. DataMatches'
    <3>1. \A f \in Ends : \A i \in 1 .. Len(net'[f]) :
             net'[f][i].cmd = "Data" => Matches(f, net[f][i])'
      BY <1>1, <1>2, NetMatches DEF StreamInv, connVars
    <3>2. \A f \in Ends : work'[f] # <<>> => Matches(f, work[f][1])'
      <4>1. Matches(e, work[e][1])'
        BY <1>2, <2>2, <2>3 DEF Matches, connVars
      <4>2. \A f \in Ends : f # e /\ work'[f] # <<>> => Matches(f, work[f][1])'
        BY <1>2, <2>3 DEF Matches, connVars, StreamInv, DataMatches
      <4> QED
        BY <4>1, <4>2
    <3> QED
      BY <3>1, <3>2 DEF DataMatches
  <2>8. SendersCount' /\ Streams'
    BY <1>2 DEF StreamInv, SendersCount, Streams, connVars
  <2> QED
    BY <2>6, <2>7, <2>8 DEF StreamInv
<1> QED
  BY <1>5, <1>6

\* OnRecv: what it puts is the next of what was written.
LEMMA StreamRecv ==
    ASSUME ConnType, ConnType', TableInv, StreamInv, NEW e \in Ends, OnRecv(e)
    PROVE  StreamInv'
<1> DEFINE m == work[e][1]
           id == m.id
           s == sent[Peer(e)][id]
           g == got[e][id]
<1>1. Adds({"Close", "Connect"}) /\ UNCHANGED <<done, sendSeq, sent>>
  BY QuietSteps, AddsMore DEF OnRecv
<1>2. work[e] # <<>> /\ work' = [work EXCEPT ![e] = <<>>]
  BY DEF OnRecv
<1>3. m \in Messages /\ id \in Ids /\ m.seq \in Nat /\ m.data \in Nat
  BY <1>2, WorkType DEF Messages
<1>4. m.seq < Len(s) /\ m.data = s[m.seq + 1]
  BY <1>2 DEF StreamInv, DataMatches, Matches
<1>5. recvSeq[e][id] = Len(g)
  BY <1>2, <1>3 DEF StreamInv, ReceiversCount, Working
<1>6. Len(g) <= Len(s) /\ \A i \in 1 .. Len(g) : g[i] = s[i]
  BY <1>3 DEF StreamInv, Streams
<1>7. \/ UNCHANGED <<recvSeq, got>>
      \/ /\ recvSeq[e][id] = m.seq
         /\ recvSeq' = [recvSeq EXCEPT ![e][id] = recvSeq[e][id] + 1]
         /\ got' = [got EXCEPT ![e][id] = Append(g, m.data)] \/ (got' = got /\ done[e][id] > 0)
  BY DEF OnRecv
<1>8. /\ recvSeq \in [Ends -> [Ids -> Nat]] /\ got \in [Ends -> [Ids -> Seq(Nat)]]
      /\ g \in Seq(Nat) /\ s \in Seq(Nat)
  <2>1. /\ recvSeq \in [Ends -> [Ids -> Nat]] /\ got \in [Ends -> [Ids -> Seq(Nat)]]
        /\ sent \in [Ends -> [Ids -> Seq(Nat)]]
    BY DEF ConnType
  <2> HIDE DEF id
  <2> QED
    BY <1>3, <2>1, PeerType
<1>9. Len(g) \in Nat /\ Len(s) \in Nat
  BY <1>8, LenProperties
<1> HIDE DEF m, id, s, g
<1>10. work'[e] = <<>> /\ \A f \in Ends : f # e => work'[f] = work[f]
  BY <1>2 DEF ConnType
<1>11. \A f \in Ends, j \in Ids : Working(f, j)' <=> Working(f, j) /\ f # e
  BY <1>10 DEF Working
<1>12. DataMatches'
  <2>1. \A f \in Ends : \A i \in 1 .. Len(net'[f]) :
           net'[f][i].cmd = "Data" => Matches(f, net[f][i])'
    BY <1>1, NetMatches DEF StreamInv
  <2>2. \A f \in Ends : work'[f] # <<>> => Matches(f, work[f][1])'
    BY <1>1, <1>10 DEF Matches, StreamInv, DataMatches
  <2> QED
    BY <2>1, <2>2 DEF DataMatches
<1>13. SendersCount'
  BY <1>1 DEF StreamInv, SendersCount
<1>14. \A f \in Ends, j \in Ids :
          ~(f = e /\ j = id) => recvSeq'[f][j] = recvSeq[f][j] /\ got'[f][j] = got[f][j]
  <2> DEFINE t == Append(g, m.data)
  <2> HIDE DEF t
  <2>1. got' = got \/ got' = [got EXCEPT ![e][id] = t]
    BY <1>7 DEF t
  <2>2. recvSeq' = recvSeq \/ recvSeq' = [recvSeq EXCEPT ![e][id] = recvSeq[e][id] + 1]
    BY <1>7
  <2> QED
    BY <1>3, <1>8, <2>1, <2>2
<1>15. \/ recvSeq'[e][id] = recvSeq[e][id] /\ got'[e][id] = g
       \/ /\ m.seq = Len(g) /\ recvSeq'[e][id] = Len(g) + 1 /\ got'[e][id] = Append(g, m.data)
       \/ recvSeq'[e][id] = Len(g) + 1 /\ got'[e][id] = g /\ done[e][id] > 0
  <2> DEFINE t == Append(g, m.data)
  <2> HIDE DEF t
  <2>1. \/ UNCHANGED <<recvSeq, got>>
        \/ /\ recvSeq[e][id] = m.seq
           /\ recvSeq' = [recvSeq EXCEPT ![e][id] = recvSeq[e][id] + 1]
           /\ got' = [got EXCEPT ![e][id] = t] \/ (got' = got /\ done[e][id] > 0)
    BY <1>7 DEF t
  <2>2. g = got[e][id]
    BY DEF g
  <2>3. \/ recvSeq'[e][id] = recvSeq[e][id] /\ got'[e][id] = g
        \/ m.seq = Len(g) /\ recvSeq'[e][id] = Len(g) + 1 /\ got'[e][id] = t
        \/ recvSeq'[e][id] = Len(g) + 1 /\ got'[e][id] = g /\ done[e][id] > 0
    BY <1>3, <1>5, <1>8, <2>1, <2>2
  <2> QED
    BY <2>3 DEF t
<1>16. ReceiversCount'
  <2>1. recvSeq'[e][id] = Len(got'[e][id]) \/ done[e][id] > 0
    BY <1>3, <1>5, <1>8, <1>15, AppendProperties
  <2> SUFFICES ASSUME NEW f \in Ends, NEW j \in Ids
               PROVE  recvSeq'[f][j] = Len(got'[f][j]) \/ (done'[f][j] > 0 /\ ~Working(f, j)')
    BY DEF ReceiversCount
  <2>2. CASE f = e /\ j = id
    BY <1>1, <1>11, <2>1, <2>2
  <2>3. CASE ~(f = e /\ j = id)
    BY <1>1, <1>11, <1>14, <2>3 DEF StreamInv, ReceiversCount
  <2> QED
    BY <2>2, <2>3
<1>17. Streams'
  <2> DEFINE h == got'[e][id]
  <2>1. h = g \/ (m.seq = Len(g) /\ h = Append(g, m.data))
    BY <1>15
  <2> HIDE DEF h
  <2>2. Len(h) <= Len(s) /\ \A i \in 1 .. Len(h) : h[i] = s[i]
    <3>1. CASE h = g
      BY <1>6, <3>1
    <3>2. CASE m.seq = Len(g) /\ h = Append(g, m.data)
      <4>1. /\ Len(h) = Len(g) + 1 /\ h[Len(g) + 1] = m.data
            /\ \A i \in 1 .. Len(g) : h[i] = g[i]
        BY <1>3, <1>8, <3>2, AppendProperties
      <4> QED
        BY <1>4, <1>6, <1>9, <3>2, <4>1
    <3> QED
      BY <2>1, <3>1, <3>2
  <2> SUFFICES ASSUME NEW f \in Ends, NEW j \in Ids
               PROVE  /\ Len(got'[f][j]) <= Len(sent[Peer(f)][j])
                      /\ \A i \in 1 .. Len(got'[f][j]) : got'[f][j][i] = sent[Peer(f)][j][i]
    BY <1>1 DEF Streams
  <2>3. CASE f = e /\ j = id
    BY <2>2, <2>3 DEF h, s
  <2>4. CASE ~(f = e /\ j = id)
    BY <1>14, <2>4 DEF StreamInv, Streams
  <2> QED
    BY <2>3, <2>4
<1> QED
  BY <1>12, <1>13, <1>16, <1>17 DEF StreamInv

LEMMA StreamStep ==
    ASSUME ConnType, ConnType', TableInv, StreamInv, [Next]_vars PROVE StreamInv'
<1>1. CASE DialNew \/ \E id \in Ids : DialAdd(id)
  <2>1. net' = net /\ UNCHANGED <<connVars, work>>
    BY <1>1 DEF DialNew, DialAdd, netVars
  <2> QED
    BY <2>1, AddsNothing, RememberStep, StreamSame
<1>2. ASSUME NEW id \in Ids, DialConnect(id) PROVE StreamInv'
  <2> DEFINE m == Msg("Connect", id)
  <2>1. m \in Messages /\ m.cmd = "Connect"
    BY MsgType DEF Msg
  <2>2. (Post("dialer", m, 1, net, 0) \/ net' = net) /\ UNCHANGED <<connVars, work>>
    BY <1>2 DEF DialConnect, Fails
  <2> HIDE DEF m
  <2>3. Adds({"Close", "Connect"})
    <3>1. CASE net' = net
      BY <3>1, AddsNothing
    <3>2. CASE Post("dialer", m, 1, net, 0)
      <4>1. Adds({m.cmd})
        BY <2>1, <3>2, AddsPost DEF Ends
      <4> QED
        BY <2>1, <4>1, AddsMore
    <3> QED
      BY <2>2, <3>1, <3>2
  <2> QED
    BY <2>2, <2>3, RememberStep, StreamSame
<1>3. CASE OnConnect
  <2>1. net["listener"] # <<>> /\ net' = Taken("listener") /\ UNCHANGED <<connVars, work>>
    BY <1>3 DEF OnConnect, Arrives
  <2> QED
    BY <2>1, AddsTaken, RememberStep, StreamSame DEF Ends
<1>4. ASSUME NEW e \in Ends, NEW id \in Ids, Write(e, id) PROVE StreamInv'
  BY <1>4, StreamWrite
<1>5. ASSUME NEW e \in Ends, OnDataGet(e) \/ OnRecv(e) PROVE StreamInv'
  BY <1>5, StreamGet, StreamRecv
<1>6. ASSUME NEW e \in Ends,
             \/ \E id \in Ids : CloseSend(e, id) \/ CloseDel(e, id)
             \/ Accept
             \/ OnClose(e) \/ OnInstOffline
             \/ Tick \/ CheckExpired(e) \/ CheckSend(e) \/ CheckDel(e)
             \/ UNCHANGED vars
      PROVE  StreamInv'
  <2>1. UNCHANGED <<connVars, work>>
    BY <1>6 DEF CloseSend, CloseDel, Accept, OnClose, OnInstOffline, Tick, CheckExpired,
                CheckSend, CheckDel, vars
  <2>2. Adds({"Close", "Connect"}) /\ Remembers
    BY <1>6, QuietSteps, AddsMore
  <2> QED
    BY <2>1, <2>2, StreamSame
<1> QED
  BY <1>1, <1>2, <1>3, <1>4, <1>5, <1>6, NextCases

\* What an end has received on a connection is a prefix of what the other end
\* has written, whatever the mesh loses and whoever closes it when.
THEOREM StreamsArePrefixes == Spec => []StreamPrefix
<1>1. ConnType /\ StreamInv => StreamPrefix
  <2> SUFFICES ASSUME ConnType, StreamInv, NEW e \in Ends, NEW id \in Ids
               PROVE  IsPrefix(got[e][id], sent[Peer(e)][id])
    BY DEF StreamPrefix
  <2> DEFINE g == got[e][id]
             s == sent[Peer(e)][id]
  <2>1. g \in Seq(Nat) /\ s \in Seq(Nat) /\ Len(g) \in Nat /\ Len(s) \in Nat
    BY PeerType, LenProperties DEF ConnType
  <2>2. Len(g) <= Len(s) /\ \A i \in 1 .. Len(g) : g[i] = s[i]
    BY DEF StreamInv, Streams
  <2> HIDE DEF g, s
  <2>3. \A i \in 1 .. Len(g) : g[i] \in Nat /\ s[i] \in Nat
    BY <2>1, <2>2
  <2>4. /\ SubSeq(g, 1, Len(g)) \in Seq(Nat) /\ Len(SubSeq(g, 1, Len(g))) = Len(g)
        /\ \A i \in 1 .. Len(g) : SubSeq(g, 1, Len(g))[i] = g[i]
    BY <2>1, <2>3, SubSeqProperties
  <2>5. /\ SubSeq(s, 1, Len(g)) \in Seq(Nat) /\ Len(SubSeq(s, 1, Len(g))) = Len(g)
        /\ \A i \in 1 .. Len(g) : SubSeq(s, 1, Len(g))[i] = s[i]
    BY <2>1, <2>3, SubSeqProperties
  <2>6. SubSeq(g, 1, Len(g)) = SubSeq(s, 1, Len(g))
    BY <2>2, <2>4, <2>5, SeqEqual
  <2> QED
    BY <2>2, <2>6 DEF IsPrefix, g, s
<1>2. ConnType /\ TableInv /\ StreamInv /\ [Next]_vars => (ConnType /\ TableInv /\ StreamInv)'
  BY TypeStep, TableStep, StreamStep
<1> QED
  BY <1>1, <1>2, TypeInit, TableInit, StreamInit, PTL DEF Spec
=============================================================================
