-------------------------- MODULE NetDialerProofs --------------------------
(***************************************************************************)
(* Proofs about NetDialer, for any number of callers of Send and any       *)
(* number of faults: what the wait of dial for the loops of the last       *)
(* connection, and its second look at the state, are good for.             *)
(***************************************************************************)
EXTENDS NetDialer, FiniteSetTheorems, SequenceTheorems, TLAPS

Conns == [raw : Nat, inited : BOOLEAN, closed : BOOLEAN, data : BOOLEAN]
Loops == [of : Nat, kind : {"read", "write"}, conn : Nat, pc : {"new", "run", "failed"}]
Raws == {"open", "lost", "closed"}
Labels == {"test", "claim", "wait", "net", "check", "new", "init", "ready", "spawn", "notify",
           "watch", "select", "retry", "end",
           "idle", "register", "registered", "await", "send"}

TypeOK ==
    /\ conns \in Seq(Conns)
    /\ conn \in 0 .. Len(conns)
    /\ raws \in Seq(Raws)
    /\ raw \in [Callers -> Nat]
    /\ err \in [Callers -> BOOLEAN]
    /\ pc \in [Callers -> Labels]
    /\ loops \subseteq Loops
    /\ stop \in {"no", "fired", "set", "done"}
    /\ started \in BOOLEAN /\ overlapped \in BOOLEAN /\ crashed \in BOOLEAN

\* A goroutine in dial that has waited for the loops.
Waited(p) == pc[p] \in {"net", "check", "new", "init", "ready", "spawn"}

\* One goroutine is inside dial, and from its wait on there are no loops, so that
\* it may put another Conn into the field.  The Conn in the field is initialised
\* except at "init", and has the connection of the dial that is about to start its
\* loops, then of these loops.
LoopsInv ==
    /\ \A p, q \in Callers : InDial(p) /\ InDial(q) => p = q
    /\ \A p \in Callers : Waited(p) => loops = {}
    /\ \A l, m \in loops : l.kind = m.kind => l = m
    /\ \A l \in loops : l.pc # "new" => l.conn = conn
    /\ \A l \in loops : conn # 0 /\ conns[conn].raw = l.of
    /\ \A p \in Callers : pc[p] \in {"ready", "spawn"} => conns[conn].raw = raw[p]
    /\ conn # 0 /\ (\A p \in Callers : pc[p] # "init") => conns[conn].inited

\* From the moment Shutdown sets the state no dial gets past its second look at
\* it; once Shutdown is over, none is left that was past it before, so that the
\* closed Conn stays in the field.
StopInv ==
    /\ \A p \in Callers : pc[p] \in {"init", "ready", "spawn"} => conn # 0
    /\ \A p \in Callers : pc[p] = "notify" /\ ~err[p] => conn # 0
    /\ started => conn # 0
    /\ stop # "no" => started
    /\ stop \in {"set", "done"} => state = "Shutdown"
    /\ stop = "done" => /\ \A p \in Callers : pc[p] \notin {"new", "init"}
                        /\ conns[conn].closed

DialerInv == TypeOK /\ (Apart => LoopsInv /\ StopInv)

-----------------------------------------------------------------------------
(* Conn objects.                                                           *)

\* What happened to the Conns when they were closed or got data.
Kept(cs, ds) ==
    /\ ds \in Seq(Conns)
    /\ Len(ds) = Len(cs)
    /\ \A c \in 1 .. Len(cs) : /\ ds[c].raw = cs[c].raw
                               /\ ds[c].inited = cs[c].inited
                               /\ cs[c].closed => ds[c].closed

LEMMA ExceptAt ==
    ASSUME NEW S, NEW s \in Seq(S), NEW i, NEW x, i \in 1 .. Len(s) => x \in S
    PROVE  /\ [s EXCEPT ![i] = x] \in Seq(S)
           /\ Len([s EXCEPT ![i] = x]) = Len(s)
           /\ \A j \in 1 .. Len(s) : [s EXCEPT ![i] = x][j] = IF j = i THEN x ELSE s[j]
<1>1. CASE i \in 1 .. Len(s)
  BY <1>1, ExceptSeq
<1>2. CASE i \notin 1 .. Len(s)
  <2>1. [s EXCEPT ![i] = x] = s
    BY <1>2
  <2> QED
    BY <1>2, <2>1
<1> QED
  BY <1>1, <1>2

LEMMA ConnClosed ==
    ASSUME NEW cs \in Seq(Conns), NEW c
    PROVE  /\ Kept(cs, [cs EXCEPT ![c].closed = TRUE])
           /\ c \in 1 .. Len(cs) => [cs EXCEPT ![c].closed = TRUE][c].closed
<1> DEFINE x == [cs[c] EXCEPT !.closed = TRUE]
           ds == [cs EXCEPT ![c] = x]
<1>1. \A i \in 1 .. Len(cs) : cs[i] \in Conns
  BY ElementOfSeq
<1>2. c \in 1 .. Len(cs) => /\ x \in Conns /\ x.closed
                            /\ x.raw = cs[c].raw /\ x.inited = cs[c].inited
  BY <1>1 DEF Conns
<1>3. [cs EXCEPT ![c].closed = TRUE] = ds
  OBVIOUS
<1> HIDE DEF x
<1>4. /\ ds \in Seq(Conns) /\ Len(ds) = Len(cs)
      /\ \A j \in 1 .. Len(cs) : ds[j] = IF j = c THEN x ELSE cs[j]
  BY <1>2, ExceptAt
<1> HIDE DEF ds
<1> QED
  BY <1>2, <1>3, <1>4 DEF Kept

LEMMA ConnData ==
    ASSUME NEW cs \in Seq(Conns), NEW c, NEW d \in BOOLEAN
    PROVE  Kept(cs, [cs EXCEPT ![c].data = d])
<1> DEFINE x == [cs[c] EXCEPT !.data = d]
           ds == [cs EXCEPT ![c] = x]
<1>1. \A i \in 1 .. Len(cs) : cs[i] \in Conns
  BY ElementOfSeq
<1>2. c \in 1 .. Len(cs) => /\ x \in Conns /\ x.closed = cs[c].closed
                            /\ x.raw = cs[c].raw /\ x.inited = cs[c].inited
  BY <1>1 DEF Conns
<1>3. [cs EXCEPT ![c].data = d] = ds
  OBVIOUS
<1> HIDE DEF x
<1>4. /\ ds \in Seq(Conns) /\ Len(ds) = Len(cs)
      /\ \A j \in 1 .. Len(cs) : ds[j] = IF j = c THEN x ELSE cs[j]
  BY <1>2, ExceptAt
<1> HIDE DEF ds
<1> QED
  BY <1>2, <1>3, <1>4 DEF Kept

LEMMA ConnSet ==
    ASSUME NEW cs \in Seq(Conns), NEW c, NEW x \in Conns
    PROVE  [cs EXCEPT ![c] = x] \in Seq(Conns) /\ Len([cs EXCEPT ![c] = x]) = Len(cs)
BY ExceptAt

LEMMA LoopMoved ==
    ASSUME NEW l \in Loops, NEW c \in Nat, NEW x \in {"new", "run", "failed"}
    PROVE  [l EXCEPT !.conn = c, !.pc = x] \in Loops
BY DEF Loops

LEMMA RawsClosed ==
    ASSUME NEW rs \in Seq(Raws), NEW r PROVE [rs EXCEPT ![r] = "closed"] \in Seq(Raws)
<1>1. "closed" \in Raws
  BY DEF Raws
<1> QED
  BY <1>1, ExceptAt

\* The steps after which the Conn in the field is the same, perhaps closed.
LEMMA KeptConns ==
    ASSUME TypeOK, NEW p,
           \/ p \in Senders /\ SendData(p)
           \/ ShutdownClose
           \/ p \in loops /\ (LoopFails(p) \/ Write(p))
    PROVE  Kept(conns, conns') /\ conn' = conn
<1>0. conns \in Seq(Conns)
  BY DEF TypeOK
<1>1. Kept(conns, conns)
  BY <1>0 DEF Kept
<1>2. CASE p \in Senders /\ SendData(p)
  BY <1>0, <1>1, <1>2, ConnData DEF SendData
<1>3. CASE ShutdownClose
  BY <1>0, <1>1, <1>3, ConnClosed DEF ShutdownClose, Close
<1>4. CASE p \in loops /\ LoopFails(p)
  BY <1>0, <1>1, <1>4, ConnClosed DEF LoopFails, Close
<1>5. CASE p \in loops /\ Write(p)
  BY <1>0, <1>5, ConnData DEF Write
<1> QED
  BY <1>2, <1>3, <1>4, <1>5

LEMMA KeptField ==
    ASSUME TypeOK, Kept(conns, conns'), conn' = conn
    PROVE  /\ conns' \in Seq(Conns) /\ conn' \in 0 .. Len(conns')
           /\ conn # 0 => /\ conns'[conn].raw = conns[conn].raw
                          /\ conns'[conn].inited = conns[conn].inited
                          /\ conns[conn].closed => conns'[conn].closed
BY DEF TypeOK, Kept

-----------------------------------------------------------------------------
(* The invariant.                                                          *)

LEMMA TypeStep ==
    ASSUME TypeOK, Next PROVE TypeOK'
<1> USE DEF TypeOK, Labels, Goto, Callers, RC, stateVars, restVars, Conns, Raws
<1>1. ASSUME NEW p \in Callers, DialTest(p) PROVE TypeOK'
  BY <1>1 DEF DialTest, Return
<1>2. ASSUME NEW p \in Callers, DialClaim(p) PROVE TypeOK'
  BY <1>2 DEF DialClaim, setState
<1>3. ASSUME NEW p \in Callers, DialWait(p) PROVE TypeOK'
  BY <1>3 DEF DialWait
<1>4. ASSUME NEW p \in Callers, DialFails(p) PROVE TypeOK'
  BY <1>4 DEF DialFails, setState
<1>5. ASSUME NEW p \in Callers, DialConnects(p) PROVE TypeOK'
  BY <1>5 DEF DialConnects
<1>6. ASSUME NEW p \in Callers, DialCheck(p) PROVE TypeOK'
  <2>1. UNCHANGED <<conns, conn, raws, loops, stop, started, overlapped, crashed>>
    BY <1>6 DEF DialCheck
  <2>2. pc' \in [Callers -> Labels]
    BY <1>6 DEF DialCheck
  <2>3. raw' \in [Callers -> Nat] /\ err' \in [Callers -> BOOLEAN]
    <3>1. CASE UNCHANGED <<raw, err>>
      BY <3>1
    <3>2. CASE raw' = [raw EXCEPT ![p] = 0] /\ err' = [err EXCEPT ![p] = TRUE]
      BY <3>2
    <3> QED
      BY <1>6, <3>1, <3>2 DEF DialCheck
  <2> QED
    BY <2>1, <2>2, <2>3
<1>7. ASSUME NEW p \in Callers, DialNew(p) PROVE TypeOK'
  BY <1>7 DEF DialNew
<1>8. ASSUME NEW p \in Callers, DialInit(p) PROVE TypeOK'
  <2>1. PICK greets \in BOOLEAN :
           conns' = [conns EXCEPT ![conn] =
              [raw |-> raw[p], inited |-> TRUE, closed |-> FALSE, data |-> greets]]
    BY <1>8 DEF DialInit
  <2> DEFINE x == [raw |-> raw[p], inited |-> TRUE, closed |-> FALSE, data |-> greets]
  <2>2. x \in Conns /\ conns' = [conns EXCEPT ![conn] = x] /\ conns \in Seq(Conns)
    BY <2>1
  <2> HIDE DEF Conns
  <2> HIDE DEF x
  <2>3. conns' \in Seq(Conns) /\ Len(conns') = Len(conns)
    BY <2>2, ConnSet, Zenon
  <2> QED
    BY <1>8, <2>3 DEF DialInit
<1>9. ASSUME NEW p \in Callers, DialReady(p) PROVE TypeOK'
  BY <1>9 DEF DialReady, setState
<1>10. ASSUME NEW p \in Callers, DialSpawn(p) PROVE TypeOK'
  <2>1. loops' \subseteq Loops
    BY <1>10 DEF DialSpawn, Loops
  <2> QED
    BY <1>10, <2>1 DEF DialSpawn
<1>11. ASSUME NEW p \in Callers, DialNotify(p) PROVE TypeOK'
  BY <1>11 DEF DialNotify, Return
<1>12. CASE Watch
  BY <1>12 DEF Watch
<1>13. CASE WatchClosed
  BY <1>13 DEF WatchClosed
<1>14. CASE Quit
  BY <1>14 DEF Quit
<1>15. CASE Retry
  BY <1>15 DEF Retry
<1>16. ASSUME NEW g \in Senders, Send(g) PROVE TypeOK'
  BY <1>16 DEF Send
<1>17. ASSUME NEW g \in Senders, GetNotify(g) PROVE TypeOK'
  BY <1>17 DEF GetNotify
<1>18. ASSUME NEW g \in Senders, Await(g) PROVE TypeOK'
  BY <1>18 DEF Await
<1>19. ASSUME NEW g \in Senders, Timeout(g) PROVE TypeOK'
  BY <1>19 DEF Timeout
<1>20. ASSUME NEW g \in Senders, SendData(g) PROVE TypeOK'
  <2>1. conns' \in Seq(Conns) /\ conn' \in 0 .. Len(conns')
    BY <1>20, KeptConns, KeptField
  <2> QED
    BY <1>20, <2>1 DEF SendData
<1>21. CASE ShutdownFire
  BY <1>21 DEF ShutdownFire
<1>22. CASE ShutdownSet
  BY <1>22 DEF ShutdownSet, setState
<1>23. CASE ShutdownClose
  <2>1. conns' \in Seq(Conns) /\ conn' \in 0 .. Len(conns')
    BY <1>23, KeptConns, KeptField
  <2>2. raws' \in Seq(Raws)
    <3>1. raws' = raws \/ raws' = [raws EXCEPT ![conns[conn].raw] = "closed"]
      BY <1>23 DEF ShutdownClose, Close
    <3>2. raws \in Seq(Raws)
      OBVIOUS
    <3> HIDE DEF Raws
    <3> QED
      BY <3>1, <3>2, RawsClosed
  <2>3. overlapped' \in BOOLEAN /\ crashed' \in BOOLEAN
    BY <1>23 DEF ShutdownClose
  <2> QED
    BY <1>23, <2>1, <2>2, <2>3 DEF ShutdownClose
<1>24. ASSUME NEW l \in loops, LoopBegin(l) PROVE TypeOK'
  <2>1. loops' \subseteq Loops
    <3>1. l \in Loops /\ conn \in Nat
      BY LenProperties
    <3>2. [l EXCEPT !.conn = conn, !.pc = "run"] \in Loops
      BY <3>1, LoopMoved
    <3>3. loops' = loops \/ loops' = (loops \ {l}) \cup {[l EXCEPT !.conn = conn, !.pc = "run"]}
      BY <1>24 DEF LoopBegin, Move
    <3> QED
      BY <3>2, <3>3
  <2> QED
    BY <1>24, <2>1 DEF LoopBegin
<1>25. ASSUME NEW l \in loops, LoopFails(l) PROVE TypeOK'
  <2>1. conns' \in Seq(Conns) /\ conn' \in 0 .. Len(conns')
    BY <1>25, KeptConns, KeptField
  <2>2. raws' \in Seq(Raws)
    <3>1. raws' = raws \/ raws' = [raws EXCEPT ![conns[conn].raw] = "closed"]
      BY <1>25 DEF LoopFails, Close
    <3>2. raws \in Seq(Raws)
      OBVIOUS
    <3> HIDE DEF Raws
    <3> QED
      BY <3>1, <3>2, RawsClosed
  <2>3. loops' \subseteq Loops
    <3>1. l \in Loops /\ l.conn \in Nat
      BY DEF Loops
    <3>2. [l EXCEPT !.conn = l.conn, !.pc = "failed"] \in Loops
      BY <3>1, LoopMoved
    <3>3. \/ loops' = loops
          \/ loops' = (loops \ {l}) \cup {[l EXCEPT !.conn = l.conn, !.pc = "failed"]}
      BY <1>25 DEF LoopFails, Move
    <3> QED
      BY <3>2, <3>3
  <2> QED
    BY <1>25, <2>1, <2>2, <2>3 DEF LoopFails
<1>26. ASSUME NEW l \in loops, LoopEnd(l) PROVE TypeOK'
  BY <1>26 DEF LoopEnd, setState
<1>27. ASSUME NEW l \in loops, Write(l) PROVE TypeOK'
  <2>1. conns' \in Seq(Conns) /\ conn' \in 0 .. Len(conns')
    BY <1>27, KeptConns, KeptField
  <2> QED
    BY <1>27, <2>1 DEF Write
<1>28. ASSUME NEW l \in loops, WriteEnds(l) PROVE TypeOK'
  BY <1>28 DEF WriteEnds
<1>29. ASSUME NEW r \in DOMAIN raws, Lose(r) PROVE TypeOK'
  BY <1>29 DEF Lose
<1> QED
  BY <1>1, <1>2, <1>3, <1>4, <1>5, <1>6, <1>7, <1>8, <1>9, <1>10, <1>11, <1>12, <1>13, <1>14,
     <1>15, <1>16, <1>17, <1>18, <1>19, <1>20, <1>21, <1>22, <1>23, <1>24, <1>25, <1>26,
     <1>27, <1>28, <1>29
     DEF Next, dial, reConnect, Loop

LEMMA LoopsStep ==
    ASSUME TypeOK, LoopsInv, StopInv, Apart, Next, Apart' PROVE LoopsInv'
<1> USE DEF TypeOK, LoopsInv, StopInv, Apart, Goto, Callers, Waited, InDial, stateVars, restVars
<1>1. ASSUME NEW p \in Callers, DialTest(p) PROVE LoopsInv'
  <2>1. CASE state \in {"Idle", "TransientFailure"}
    <3>1. \A q \in Callers : ~InDial(q)
      BY <1>1, <2>1 DEF DialTest
    <3>2. \A q \in Callers : q # p => pc'[q] = pc[q]
      BY <1>1, <2>1 DEF DialTest
    <3> QED
      BY <1>1, <2>1, <3>1, <3>2 DEF DialTest
  <2>2. CASE state \notin {"Idle", "TransientFailure"}
    <3>1. Return(p, state # "Ready") \in {"retry", "end", "watch", "idle", "send"}
      BY DEF Return
    <3>2. pc' = [pc EXCEPT ![p] = Return(p, state # "Ready")] /\ pc[p] = "test"
      BY <1>1, <2>2 DEF DialTest
    <3>3. UNCHANGED <<stateVars, raw, loops>>
      BY <1>1 DEF DialTest
    <3> HIDE DEF Return
    <3> QED
      BY <3>1, <3>2, <3>3
  <2> QED
    BY <2>1, <2>2
<1>2. ASSUME NEW p \in Callers, DialClaim(p) PROVE LoopsInv'
  BY <1>2 DEF DialClaim, setState
<1>3. ASSUME NEW p \in Callers, DialWait(p) PROVE LoopsInv'
  BY <1>3 DEF DialWait
<1>4. ASSUME NEW p \in Callers, DialFails(p) PROVE LoopsInv'
  BY <1>4 DEF DialFails, setState
<1>5. ASSUME NEW p \in Callers, DialConnects(p) PROVE LoopsInv'
  BY <1>5 DEF DialConnects
<1>6. ASSUME NEW p \in Callers, DialCheck(p) PROVE LoopsInv'
  <2>1. CASE state = "Connecting"
    BY <1>6, <2>1 DEF DialCheck
  <2>2. CASE state # "Connecting"
    <3>1. pc[p] = "check" /\ pc' = [pc EXCEPT ![p] = "notify"] /\ UNCHANGED <<stateVars, loops>>
      BY <1>6, <2>2 DEF DialCheck
    <3>2. \A q \in Callers : q # p => pc'[q] = pc[q] /\ ~InDial(q) /\ ~Waited(q)
      BY <3>1
    <3>3. pc'[p] = "notify" /\ loops = {}
      BY <3>1
    <3>4. conn # 0 => conns[conn].inited
      BY <3>1, <3>2
    <3> QED
      BY <3>1, <3>2, <3>3, <3>4
  <2> QED
    BY <2>1, <2>2
<1>7. ASSUME NEW p \in Callers, DialNew(p) PROVE LoopsInv'
  BY <1>7 DEF DialNew
<1>8. ASSUME NEW p \in Callers, DialInit(p) PROVE LoopsInv'
  BY <1>8 DEF DialInit
<1>9. ASSUME NEW p \in Callers, DialReady(p) PROVE LoopsInv'
  BY <1>9 DEF DialReady, setState
<1>10. ASSUME NEW p \in Callers, DialSpawn(p) PROVE LoopsInv'
  BY <1>10 DEF DialSpawn
<1>11. ASSUME NEW p \in Callers, DialNotify(p) PROVE LoopsInv'
  <2>1. \A q \in Callers, e \in BOOLEAN : Return(q, e) \in {"retry", "end", "watch", "idle", "send"}
    BY DEF Return
  <2>2. pc[p] = "notify" /\ UNCHANGED <<stateVars, raw, loops>>
    BY <1>11 DEF DialNotify
  <2>3. \A q \in Callers : pc'[q] = pc[q] \/ pc'[q] \in {"retry", "end", "watch", "idle", "send"}
    BY <1>11, <2>1 DEF DialNotify
  <2>4. \A q \in Callers : pc[q] = "init" => pc'[q] = "init"
    BY <1>11, <2>2 DEF DialNotify
  <2> QED
    BY <2>2, <2>3, <2>4
<1>12. CASE Watch
  BY <1>12 DEF Watch
<1>13. CASE WatchClosed
  BY <1>13 DEF WatchClosed
<1>14. CASE Quit
  BY <1>14 DEF Quit
<1>15. CASE Retry
  BY <1>15 DEF Retry
<1>16. ASSUME NEW g \in Senders, Send(g) PROVE LoopsInv'
  BY <1>16 DEF Send
<1>17. ASSUME NEW g \in Senders, GetNotify(g) PROVE LoopsInv'
  BY <1>17 DEF GetNotify
<1>18. ASSUME NEW g \in Senders, Await(g) PROVE LoopsInv'
  BY <1>18 DEF Await
<1>19. ASSUME NEW g \in Senders, Timeout(g) PROVE LoopsInv'
  BY <1>19 DEF Timeout
<1>20. ASSUME NEW g \in Senders, SendData(g) PROVE LoopsInv'
  <2>1. conn # 0 => /\ conns'[conn].raw = conns[conn].raw
                    /\ conns'[conn].inited = conns[conn].inited
    BY <1>20, KeptConns, KeptField
  <2>2. UNCHANGED <<conn, raw, loops>> /\ pc[g] = "send" /\ pc' = [pc EXCEPT ![g] = "idle"]
    BY <1>20 DEF SendData
  <2> QED
    BY <2>1, <2>2
<1>21. CASE ShutdownFire
  BY <1>21 DEF ShutdownFire
<1>22. CASE ShutdownSet
  BY <1>22 DEF ShutdownSet, setState
<1>23. CASE ShutdownClose
  <2>1. conn # 0 => /\ conns'[conn].raw = conns[conn].raw
                    /\ conns'[conn].inited = conns[conn].inited
    BY <1>23, KeptConns, KeptField
  <2>2. UNCHANGED <<conn, pc, raw, loops>>
    BY <1>23 DEF ShutdownClose
  <2> QED
    BY <2>1, <2>2
<1>24. ASSUME NEW l \in loops, LoopBegin(l) PROVE LoopsInv'
  <2>1. l.pc = "new" /\ UNCHANGED <<stateVars, pc, raw>>
    BY <1>24 DEF LoopBegin
  <2>2. loops' = (loops \ {l}) \cup {[l EXCEPT !.conn = conn, !.pc = "run"]}
    BY <1>24 DEF LoopBegin, Move
  <2> DEFINE m == [l EXCEPT !.conn = conn, !.pc = "run"]
  <2>3. m.kind = l.kind /\ m.of = l.of /\ m.conn = conn
    BY DEF Loops
  <2> HIDE DEF m
  <2>4. \A k \in loops' : (k \in loops /\ k # l) \/ k = m
    BY <2>2 DEF m
  <2> QED
    BY <2>1, <2>3, <2>4
<1>25. ASSUME NEW l \in loops, LoopFails(l) PROVE LoopsInv'
  <2>1. conn # 0 => /\ conns'[conn].raw = conns[conn].raw
                    /\ conns'[conn].inited = conns[conn].inited
    BY <1>25, KeptConns, KeptField
  <2>2. l.pc = "run" /\ UNCHANGED <<conn, pc, raw>>
    BY <1>25 DEF LoopFails
  <2>3. loops' = (loops \ {l}) \cup {[l EXCEPT !.conn = l.conn, !.pc = "failed"]}
    BY <1>25 DEF LoopFails, Move
  <2> DEFINE m == [l EXCEPT !.conn = l.conn, !.pc = "failed"]
  <2>4. m.kind = l.kind /\ m.of = l.of /\ m.conn = conn
    BY <2>2 DEF Loops
  <2> HIDE DEF m
  <2>5. \A k \in loops' : (k \in loops /\ k # l) \/ k = m
    BY <2>3 DEF m
  <2>6. \A k, j \in loops' : k.kind = j.kind => k = j
    BY <2>4, <2>5
  <2>7. \A k \in loops' : k.pc # "new" => k.conn = conn
    BY <2>4, <2>5
  <2>8. \A k \in loops' : conn # 0 /\ conns[conn].raw = k.of
    BY <2>4, <2>5
  <2>9. \A p \in Callers : ~Waited(p)
    OBVIOUS
  <2> QED
    BY <2>1, <2>2, <2>6, <2>7, <2>8, <2>9
<1>26. ASSUME NEW l \in loops, LoopEnd(l) PROVE LoopsInv'
  BY <1>26 DEF LoopEnd, setState
<1>27. ASSUME NEW l \in loops, Write(l) PROVE LoopsInv'
  BY <1>27 DEF Write
<1>28. ASSUME NEW l \in loops, WriteEnds(l) PROVE LoopsInv'
  BY <1>28 DEF WriteEnds
<1>29. ASSUME NEW r \in DOMAIN raws, Lose(r) PROVE LoopsInv'
  BY <1>29 DEF Lose
<1> QED
  BY <1>1, <1>2, <1>3, <1>4, <1>5, <1>6, <1>7, <1>8, <1>9, <1>10, <1>11, <1>12, <1>13, <1>14,
     <1>15, <1>16, <1>17, <1>18, <1>19, <1>20, <1>21, <1>22, <1>23, <1>24, <1>25, <1>26,
     <1>27, <1>28, <1>29
     DEF Next, dial, reConnect, Loop

LEMMA StopStep ==
    ASSUME TypeOK, LoopsInv, StopInv, Apart, Next, Apart' PROVE StopInv'
<1> USE DEF TypeOK, LoopsInv, StopInv, Apart, Goto, Callers, InDial, stateVars, restVars
<1>1. ASSUME NEW p \in Callers, DialTest(p) PROVE StopInv'
  BY <1>1 DEF DialTest, Return
<1>2. ASSUME NEW p \in Callers, DialClaim(p) PROVE StopInv'
  BY <1>2 DEF DialClaim, setState
<1>3. ASSUME NEW p \in Callers, DialWait(p) PROVE StopInv'
  BY <1>3 DEF DialWait
<1>4. ASSUME NEW p \in Callers, DialFails(p) PROVE StopInv'
  BY <1>4 DEF DialFails, setState
<1>5. ASSUME NEW p \in Callers, DialConnects(p) PROVE StopInv'
  BY <1>5 DEF DialConnects
<1>6. ASSUME NEW p \in Callers, DialCheck(p) PROVE StopInv'
  BY <1>6 DEF DialCheck
<1>7. ASSUME NEW p \in Callers, DialNew(p) PROVE StopInv'
  BY <1>7 DEF DialNew
<1>8. ASSUME NEW p \in Callers, DialInit(p) PROVE StopInv'
  BY <1>8 DEF DialInit
<1>9. ASSUME NEW p \in Callers, DialReady(p) PROVE StopInv'
  BY <1>9 DEF DialReady, setState
<1>10. ASSUME NEW p \in Callers, DialSpawn(p) PROVE StopInv'
  BY <1>10 DEF DialSpawn
<1>11. ASSUME NEW p \in Callers, DialNotify(p) PROVE StopInv'
  BY <1>11 DEF DialNotify, Return
<1>12. CASE Watch
  BY <1>12 DEF Watch
<1>13. CASE WatchClosed
  BY <1>13 DEF WatchClosed
<1>14. CASE Quit
  BY <1>14 DEF Quit
<1>15. CASE Retry
  BY <1>15 DEF Retry
<1>16. ASSUME NEW g \in Senders, Send(g) PROVE StopInv'
  BY <1>16 DEF Send
<1>17. ASSUME NEW g \in Senders, GetNotify(g) PROVE StopInv'
  BY <1>17 DEF GetNotify
<1>18. ASSUME NEW g \in Senders, Await(g) PROVE StopInv'
  BY <1>18 DEF Await
<1>19. ASSUME NEW g \in Senders, Timeout(g) PROVE StopInv'
  BY <1>19 DEF Timeout
<1>20. ASSUME NEW g \in Senders, SendData(g) PROVE StopInv'
  <2>1. conn # 0 /\ conns[conn].closed => conns'[conn].closed
    BY <1>20, KeptConns, KeptField
  <2>2. /\ UNCHANGED <<conn, err, started, stop, state>>
        /\ pc' = [pc EXCEPT ![g] = "idle"]
    BY <1>20 DEF SendData
  <2> QED
    BY <2>1, <2>2
<1>21. CASE ShutdownFire
  BY <1>21 DEF ShutdownFire
<1>22. CASE ShutdownSet
  BY <1>22 DEF ShutdownSet, setState
<1>23. CASE ShutdownClose
  <2>1. conn \in 1 .. Len(conns)
    BY <1>23 DEF ShutdownClose
  <2>2. conns'[conn].closed
    BY <1>23, <2>1, ConnClosed DEF ShutdownClose, Close
  <2>3. \A p \in Callers : pc[p] \notin {"new", "init"}
    BY <1>23 DEF ShutdownClose
  <2>4. stop = "set" /\ stop' = "done" /\ UNCHANGED <<conn, pc, err, started, state>>
    BY <1>23 DEF ShutdownClose
  <2> QED
    BY <2>2, <2>3, <2>4
<1>24. ASSUME NEW l \in loops, LoopBegin(l) PROVE StopInv'
  BY <1>24 DEF LoopBegin, Move
<1>25. ASSUME NEW l \in loops, LoopFails(l) PROVE StopInv'
  <2>1. conn # 0 /\ conns[conn].closed => conns'[conn].closed
    BY <1>25, KeptConns, KeptField
  <2>2. UNCHANGED <<conn, pc, err, started, stop, state>>
    BY <1>25 DEF LoopFails
  <2> QED
    BY <2>1, <2>2
<1>26. ASSUME NEW l \in loops, LoopEnd(l) PROVE StopInv'
  BY <1>26 DEF LoopEnd, setState
<1>27. ASSUME NEW l \in loops, Write(l) PROVE StopInv'
  BY <1>27 DEF Write
<1>28. ASSUME NEW l \in loops, WriteEnds(l) PROVE StopInv'
  BY <1>28 DEF WriteEnds
<1>29. ASSUME NEW r \in DOMAIN raws, Lose(r) PROVE StopInv'
  BY <1>29 DEF Lose
<1> QED
  BY <1>1, <1>2, <1>3, <1>4, <1>5, <1>6, <1>7, <1>8, <1>9, <1>10, <1>11, <1>12, <1>13, <1>14,
     <1>15, <1>16, <1>17, <1>18, <1>19, <1>20, <1>21, <1>22, <1>23, <1>24, <1>25, <1>26,
     <1>27, <1>28, <1>29
     DEF Next, dial, reConnect, Loop

LEMMA DialerInit == Init => DialerInv
<1> SUFFICES ASSUME Init PROVE DialerInv
  OBVIOUS
<1>1. TypeOK
  <2>1. conns \in Seq(Conns) /\ conn \in 0 .. Len(conns) /\ raws \in Seq(Raws)
    BY DEF Init
  <2>2. pc \in [Callers -> Labels]
    BY DEF Init, Labels
  <2> QED
    BY <2>1, <2>2 DEF Init, TypeOK
<1>2. LoopsInv
  BY DEF Init, LoopsInv, InDial, Waited, Callers, RC
<1>3. StopInv
  BY DEF Init, StopInv, Callers, RC
<1> QED
  BY <1>1, <1>2, <1>3 DEF DialerInv

LEMMA DialerStep == DialerInv /\ [Next]_vars => DialerInv'
<1> SUFFICES ASSUME DialerInv, [Next]_vars PROVE DialerInv'
  OBVIOUS
<1>1. CASE Next
  <2>1. Apart /\ TypeOK /\ LoopsInv /\ StopInv
    BY <1>1 DEF Next, DialerInv
  <2>2. TypeOK'
    BY <1>1, <2>1, TypeStep
  <2>3. Apart' => LoopsInv' /\ StopInv'
    BY <1>1, <2>1, LoopsStep, StopStep
  <2> QED
    BY <2>2, <2>3 DEF DialerInv
<1>2. CASE UNCHANGED vars
  BY <1>2 DEF DialerInv, TypeOK, LoopsInv, StopInv, Apart, InDial, Waited, vars, stateVars, restVars
<1> QED
  BY <1>1, <1>2

LEMMA InvariantDialerInv == Spec => []DialerInv
BY DialerInit, DialerStep, PTL DEF Spec

-----------------------------------------------------------------------------

\* One reader and one writer are two.
LEMMA TwoLoops ==
    ASSUME NEW L \in SUBSET Loops, \A l, m \in L : l.kind = m.kind => l = m
    PROVE  Cardinality(L) <= 2
<1>1. CASE \E r \in L : r.kind = "read"
  <2>1. PICK r \in L : r.kind = "read"
    BY <1>1
  <2>2. CASE \E w \in L : w.kind = "write"
    <3>1. PICK w \in L : w.kind = "write"
      BY <2>2
    <3>2. L = {r, w} /\ r # w
      BY <2>1, <3>1 DEF Loops
    <3>3. Cardinality({r, w}) = 2
      <4>1. {r, w} = {r} \cup {w}
        OBVIOUS
      <4>2. IsFiniteSet({r}) /\ Cardinality({r}) = 1
        BY FS_Singleton
      <4>3. Cardinality({r} \cup {w}) = IF w \in {r} THEN Cardinality({r}) ELSE Cardinality({r}) + 1
        BY <4>2, FS_AddElement
      <4> QED
        BY <3>2, <4>1, <4>2, <4>3
    <3> QED
      BY <3>2, <3>3
  <2>3. CASE ~ \E w \in L : w.kind = "write"
    <3>1. L = {r}
      BY <2>1, <2>3 DEF Loops
    <3> QED
      BY <3>1, FS_Singleton
  <2> QED
    BY <2>2, <2>3
<1>2. CASE ~ \E r \in L : r.kind = "read"
  <2>1. CASE L = {}
    BY <2>1, FS_EmptySet
  <2>2. CASE L # {}
    <3>1. PICK w \in L : TRUE
      BY <2>2
    <3>2. L = {w}
      BY <1>2, <3>1 DEF Loops
    <3> QED
      BY <3>2, FS_Singleton
  <2> QED
    BY <2>1, <2>2
<1> QED
  BY <1>1, <1>2

\* The loops that run are one reader and one writer of the Conn in the field: dial
\* waits for the loops of the last connection before it makes another (dialer.go:75).
THEOREM LoopsStayCurrent == Spec => []LoopsServeCurrent
<1>1. DialerInv => LoopsServeCurrent
  <2> SUFFICES ASSUME TypeOK, LoopsInv, Apart
               PROVE  /\ Cardinality(loops) <= 2
                      /\ \A l, m \in loops : l.kind = m.kind => l = m
                      /\ \A l \in loops : l.pc # "new" => l.conn = conn
    BY DEF DialerInv, LoopsServeCurrent
  <2>1. loops \in SUBSET Loops /\ \A l, m \in loops : l.kind = m.kind => l = m
    BY DEF TypeOK, LoopsInv
  <2>2. Cardinality(loops) <= 2
    BY <2>1, TwoLoops
  <2> QED
    BY <2>1, <2>2 DEF LoopsInv
<1> QED
  BY <1>1, InvariantDialerInv, PTL

\* A reader or writer that looks at the field finds an initialised Conn, and in it
\* the TCP connection it was started for, also in the error paths that close it:
\* dial replaces the Conn when no loop is left (dialer.go:75).  Of the uses of the
\* field, those of the loops never meet a Conn before its Init.
THEOREM LoopsFindTheirConn ==
    Spec => [](Apart => \A l \in loops : conns[conn].inited /\ conns[conn].raw = l.of)
<1>1. DialerInv => (Apart => \A l \in loops : conns[conn].inited /\ conns[conn].raw = l.of)
  <2> SUFFICES ASSUME LoopsInv, NEW l \in loops
               PROVE  conns[conn].inited /\ conns[conn].raw = l.of
    BY DEF DialerInv
  <2>1. conn # 0 /\ conns[conn].raw = l.of
    BY DEF LoopsInv
  <2>2. \A p \in Callers : pc[p] # "init"
    BY DEF LoopsInv, Waited
  <2> QED
    BY <2>1, <2>2 DEF LoopsInv
<1> QED
  BY <1>1, InvariantDialerInv, PTL

\* Once Shutdown is over the Conn in the field is closed and stays so: a dial under
\* way looks at the state again before it makes a Conn (dialer.go:87), and Shutdown
\* sets the state before it closes.
THEOREM ShutdownLeavesClosed == Spec => []ShutdownCloses
<1>1. DialerInv => ShutdownCloses
  BY DEF DialerInv, StopInv, ShutdownCloses
<1> QED
  BY <1>1, InvariantDialerInv, PTL
=============================================================================
