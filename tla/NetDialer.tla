------------------------------ MODULE NetDialer ------------------------------
(***************************************************************************)
(* The dialer (common/network/dialer.go): it owns the one connection to a  *)
(* peer, dials it again when it is lost, and lets any goroutine send.      *)
(*                                                                         *)
(* Goroutines: reConnect, which starts as the caller of Start; the callers *)
(* of Send; the caller of Shutdown; and a reader and a writer for every    *)
(* connection that became ready.  A step is what one of them does between  *)
(* two points where another can get in: one critical section of rwMu, one  *)
(* wait, one network operation, one access to the field conn.              *)
(*                                                                         *)
(* The code does not keep these goroutines apart in three cases.  dial     *)
(* tests the state and sets it in two steps, so two callers may both be    *)
(* inside; Shutdown may close the old Conn when dial is past its check of  *)
(* the state (`overlapped' records these two); and dial puts the new Conn  *)
(* into the field before it initialises it, so whoever uses the field then *)
(* calls a method on nil fields (`crashed': the process is gone).  The     *)
(* model takes these steps and ends there: what follows is undefined       *)
(* enough that nothing is claimed about it.                                *)
(***************************************************************************)
EXTENDS Integers, Sequences, FiniteSets

CONSTANTS
    Senders,        \* goroutines that call Send
    MaxFaults       \* bound: dials that fail and connections that are lost

ASSUME FaultsType == MaxFaults \in Nat

RC == "reConnect"   \* the goroutine of Start and reConnect
Callers == Senders \cup {RC}

VARIABLES
    state,          \* Dialer.state
    conn,           \* Dialer.conn, an index of conns; 0 is nil
    conns,          \* the Conn objects ever made
    raws,           \* the TCP connections ever made: "open", "lost" or "closed"
    quit,           \* Dialer.quit has fired
    stop,           \* how far Shutdown is
    notifys,        \* Dialer.notifys: callers of Send with a channel in it
    pc,             \* where each caller is
    raw,            \* dial's rawConn, or 0
    err,            \* what dial, or the channel, gives the caller
    seen,           \* the Conn whose Done reConnect waits for
    loops,          \* readers and writers; wg counts them
    started,        \* Start has returned nil
    faults,         \* faults so far
    overlapped,     \* history: two dials at once, or a dial the Shutdown missed
    crashed         \* a method was called on a Conn before its Init

stateVars == <<state, conn, conns, raws>>
restVars == <<quit, stop, seen, started, crashed>>
vars == <<stateVars, notifys, pc, raw, err, loops, faults, overlapped, restVars>>

-----------------------------------------------------------------------------
Goto(p, l) == pc' = [pc EXCEPT ![p] = l]

\* setState: nothing leads out of Shutdown.
setState(s) == state' = IF state = "Shutdown" THEN state ELSE s

\* Conn.Close of conns[c], by whoever is first.
Close(c) ==
    /\ conns' = [conns EXCEPT ![c].closed = TRUE]
    /\ raws' = IF conns[c].closed THEN raws ELSE [raws EXCEPT ![conns[c].raw] = "closed"]

\* Inside dial, after the test of the state.
InDial(p) == pc[p] \in {"claim", "wait", "net", "check", "new", "init", "ready", "spawn"}

-----------------------------------------------------------------------------
(* dial, called by p.                                                      *)

\* Where p goes on when dial returns, with an error or without.
Return(p, e) ==
    IF p = RC THEN IF e THEN (IF started THEN "retry" ELSE "end") ELSE "watch"
              ELSE IF e THEN "idle" ELSE "send"

\* The test of the state.
DialTest(p) ==
    /\ pc[p] = "test"
    /\ IF state \in {"Idle", "TransientFailure"}
       THEN /\ Goto(p, "claim")
            /\ overlapped' = (overlapped \/ \E q \in Callers : InDial(q))
       ELSE /\ Goto(p, Return(p, state # "Ready"))
            /\ UNCHANGED overlapped
    /\ UNCHANGED <<stateVars, notifys, raw, err, loops, faults, restVars>>

\* setState(Connecting).
DialClaim(p) ==
    /\ pc[p] = "claim"
    /\ setState("Connecting")
    /\ Goto(p, "wait")
    /\ UNCHANGED <<conn, conns, raws, notifys, raw, err, loops, faults, overlapped, restVars>>

\* Mutant: the new connection does not wait for the loops of the last one.
DialWait_NoWait(p) ==
    /\ pc[p] = "wait"
    /\ Goto(p, "net")
    /\ UNCHANGED <<stateVars, notifys, raw, err, loops, faults, overlapped, restVars>>

\* wg.Wait.
DialWait(p) ==
    /\ pc[p] = "wait"
    /\ loops = {}
    /\ Goto(p, "net")
    /\ UNCHANGED <<stateVars, notifys, raw, err, loops, faults, overlapped, restVars>>

\* Mutant: a dial that fails leaves the state at Connecting.
DialFails_KeepState(p) ==
    /\ pc[p] = "net"
    /\ faults < MaxFaults
    /\ faults' = faults + 1
    /\ err' = [err EXCEPT ![p] = TRUE]
    /\ Goto(p, "notify")
    /\ UNCHANGED <<stateVars, notifys, raw, loops, overlapped, restVars>>

\* net.Dial fails or times out: setState(TransientFailure).
DialFails(p) ==
    /\ pc[p] = "net"
    /\ faults < MaxFaults
    /\ faults' = faults + 1
    /\ setState("TransientFailure")
    /\ err' = [err EXCEPT ![p] = TRUE]
    /\ Goto(p, "notify")
    /\ UNCHANGED <<conn, conns, raws, notifys, raw, loops, overlapped, restVars>>

DialConnects(p) ==
    /\ pc[p] = "net"
    /\ raws' = Append(raws, "open")
    /\ raw' = [raw EXCEPT ![p] = Len(raws) + 1]
    /\ Goto(p, "check")
    /\ UNCHANGED <<state, conn, conns, notifys, err, loops, faults, overlapped, restVars>>

\* Mutant: the state is not looked at again.
DialCheck_Skip(p) ==
    /\ pc[p] = "check"
    /\ Goto(p, "new")
    /\ UNCHANGED <<stateVars, notifys, raw, err, loops, faults, overlapped, restVars>>

\* isInState(Connecting): if not, dial gives up, and rawConn stays open.
DialCheck(p) ==
    /\ pc[p] = "check"
    /\ IF state = "Connecting"
       THEN Goto(p, "new") /\ UNCHANGED <<raw, err>>
       ELSE /\ Goto(p, "notify")
            /\ err' = [err EXCEPT ![p] = TRUE]
            /\ raw' = [raw EXCEPT ![p] = 0]
    /\ UNCHANGED <<stateVars, notifys, loops, faults, overlapped, restVars>>

\* d.conn = new(Conn).
DialNew(p) ==
    /\ pc[p] = "new"
    /\ conns' = Append(conns, [raw |-> 0, inited |-> FALSE, closed |-> FALSE, data |-> FALSE])
    /\ conn' = Len(conns) + 1
    /\ Goto(p, "init")
    /\ UNCHANGED <<state, raws, notifys, raw, err, loops, faults, overlapped, restVars>>

\* d.conn.Init, of the Conn the field holds now.  OnConnected sends AGENT_INFO
\* on a connection to the name server, nothing on one to an agent.
DialInit(p) ==
    /\ pc[p] = "init"
    /\ \E greets \in BOOLEAN :
          conns' = [conns EXCEPT ![conn] =
              [raw |-> raw[p], inited |-> TRUE, closed |-> FALSE, data |-> greets]]
    /\ Goto(p, "ready")
    /\ UNCHANGED <<state, conn, raws, notifys, raw, err, loops, faults, overlapped, restVars>>

DialReady(p) ==
    /\ pc[p] = "ready"
    /\ setState("Ready")
    /\ Goto(p, "spawn")
    /\ UNCHANGED <<conn, conns, raws, notifys, raw, err, loops, faults, overlapped, restVars>>

\* wg.Add(2) and the two goroutines.
DialSpawn(p) ==
    /\ pc[p] = "spawn"
    /\ loops' = loops \cup
          {[of |-> raw[p], kind |-> k, conn |-> 0, pc |-> "new"] : k \in {"read", "write"}}
    /\ raw' = [raw EXCEPT ![p] = 0]
    /\ err' = [err EXCEPT ![p] = FALSE]
    /\ Goto(p, "notify")
    /\ UNCHANGED <<stateVars, notifys, faults, overlapped, restVars>>

\* doNotify, and dial returns: the channels are taken out of the map, and each
\* whose owner is already in its select gets the result; the others get none.
DialNotify(p) ==
    LET told == {g \in notifys : pc[g] = "await"} IN
    /\ pc[p] = "notify"
    /\ notifys' = {}
    /\ pc' = [q \in Callers |->
                IF q = p THEN Return(p, err[p])
                ELSE IF q \in told THEN Return(q, err[p]) ELSE pc[q]]
    /\ started' = (started \/ (p = RC /\ ~err[p]))
    /\ UNCHANGED <<stateVars, quit, stop, raw, err, seen, loops, faults, overlapped, crashed>>

dial(p) ==
    \/ DialTest(p) \/ DialClaim(p) \/ DialWait(p) \/ DialFails(p) \/ DialConnects(p)
    \/ DialCheck(p) \/ DialNew(p) \/ DialInit(p) \/ DialReady(p) \/ DialSpawn(p)
    \/ DialNotify(p)

-----------------------------------------------------------------------------
(* Start and reConnect.  Start is the first dial; the goroutine then       *)
(* becomes reConnect (retryInterval is 3 in every dialer of skymesh).      *)

\* The select of reConnect takes the channel of the Conn in the field.
Watch ==
    /\ pc[RC] = "watch"
    /\ IF conns[conn].inited
       THEN seen' = conn /\ Goto(RC, "select") /\ UNCHANGED crashed
       ELSE crashed' = TRUE /\ UNCHANGED <<seen, pc>>
    /\ UNCHANGED <<stateVars, notifys, raw, err, loops, faults, overlapped, quit, stop, started>>

WatchClosed ==
    /\ pc[RC] = "select"
    /\ conns[seen].closed
    /\ Goto(RC, "retry")
    /\ UNCHANGED <<stateVars, notifys, raw, err, loops, faults, overlapped, restVars>>

\* Either select of reConnect finds that quit has fired.
Quit ==
    /\ pc[RC] \in {"select", "retry"}
    /\ quit
    /\ Goto(RC, "end")
    /\ UNCHANGED <<stateVars, notifys, raw, err, loops, faults, overlapped, restVars>>

\* The next attempt, at once or after retryInterval seconds.
Retry ==
    /\ pc[RC] = "retry"
    /\ ~quit
    /\ Goto(RC, "test")
    /\ UNCHANGED <<stateVars, notifys, raw, err, loops, faults, overlapped, restVars>>

reConnect == Watch \/ WatchClosed \/ Quit \/ Retry

-----------------------------------------------------------------------------
(* Send, called by g.                                                      *)

Send(g) ==
    /\ pc[g] = "idle"
    /\ started
    /\ state # "Shutdown"
    /\ Goto(g, CASE state = "Ready" -> "send"
                 [] state = "Connecting" -> "register"
                 [] OTHER -> "test")
    /\ UNCHANGED <<stateVars, notifys, raw, err, loops, faults, overlapped, restVars>>

\* getNotify.
GetNotify(g) ==
    /\ pc[g] = "register"
    /\ notifys' = notifys \cup {g}
    /\ Goto(g, "registered")
    /\ UNCHANGED <<stateVars, raw, err, loops, faults, overlapped, restVars>>

Await(g) ==
    /\ pc[g] = "registered"
    /\ Goto(g, "await")
    /\ UNCHANGED <<stateVars, notifys, raw, err, loops, faults, overlapped, restVars>>

\* Three seconds are over: delNotify.
Timeout(g) ==
    /\ pc[g] = "await"
    /\ notifys' = notifys \ {g}
    /\ Goto(g, "idle")
    /\ UNCHANGED <<stateVars, raw, err, loops, faults, overlapped, restVars>>

\* d.conn.Send.
SendData(g) ==
    /\ pc[g] = "send"
    /\ IF conns[conn].inited
       THEN /\ conns' = [conns EXCEPT ![conn].data = TRUE]
            /\ Goto(g, "idle")
            /\ UNCHANGED crashed
       ELSE crashed' = TRUE /\ UNCHANGED <<conns, pc>>
    /\ UNCHANGED <<state, conn, raws, notifys, raw, err, loops, faults, overlapped,
                   quit, stop, seen, started>>

-----------------------------------------------------------------------------
(* Shutdown, by the one caller that fires quit.                            *)

ShutdownFire ==
    /\ started
    /\ stop = "no"
    /\ quit' = TRUE
    /\ stop' = "fired"
    /\ UNCHANGED <<stateVars, notifys, pc, raw, err, loops, faults, overlapped, seen,
                   started, crashed>>

ShutdownSet ==
    /\ stop = "fired"
    /\ setState("Shutdown")
    /\ stop' = "set"
    /\ UNCHANGED <<conn, conns, raws, notifys, pc, raw, err, loops, faults, overlapped,
                   quit, seen, started, crashed>>

\* The Conn of the field is closed: the one dial is about to replace, or to
\* initialise, if it is past its check.
ShutdownClose ==
    /\ stop = "set"
    /\ stop' = "done"
    /\ overlapped' = (overlapped \/ \E p \in Callers : pc[p] \in {"new", "init"})
    /\ IF conns[conn].inited
       THEN Close(conn) /\ UNCHANGED crashed
       ELSE crashed' = TRUE /\ UNCHANGED <<conns, raws>>
    /\ UNCHANGED <<state, conn, notifys, pc, raw, err, loops, faults, quit, seen, started>>

-----------------------------------------------------------------------------
(* The reader and the writer dial starts.                                  *)

Move(l, c, label) == loops' = (loops \ {l}) \cup {[l EXCEPT !.conn = c, !.pc = label]}

\* The goroutine begins: d.conn is looked at now.
LoopBegin(l) ==
    /\ l.pc = "new"
    /\ IF conns[conn].inited
       THEN Move(l, conn, "run") /\ UNCHANGED crashed
       ELSE crashed' = TRUE /\ UNCHANGED loops
    /\ UNCHANGED <<stateVars, notifys, pc, raw, err, faults, overlapped,
                   quit, stop, seen, started>>

\* Mutant: the connection stays open, and its writer with it.
LoopFails_NoClose(l) ==
    /\ l.pc = "run"
    /\ raws[conns[l.conn].raw] # "open"
    /\ l.kind = "write" => conns[l.conn].data
    /\ Move(l, l.conn, "failed")
    /\ UNCHANGED <<stateVars, notifys, pc, raw, err, faults, overlapped, restVars>>

\* loopRead fails, on a lost or a closed connection, or loopWrite does, with
\* data to write: d.conn.Close, of the Conn in the field.
LoopFails(l) ==
    /\ l.pc = "run"
    /\ raws[conns[l.conn].raw] # "open"
    /\ l.kind = "write" => conns[l.conn].data
    /\ IF conns[conn].inited
       THEN Close(conn) /\ Move(l, l.conn, "failed") /\ UNCHANGED crashed
       ELSE crashed' = TRUE /\ UNCHANGED <<conns, raws, loops>>
    /\ UNCHANGED <<state, conn, notifys, pc, raw, err, faults, overlapped,
                   quit, stop, seen, started>>

\* setState(TransientFailure), wg.Done.
LoopEnd(l) ==
    /\ l.pc = "failed"
    /\ setState("TransientFailure")
    /\ loops' = loops \ {l}
    /\ UNCHANGED <<conn, conns, raws, notifys, pc, raw, err, faults, overlapped, restVars>>

\* loopWrite writes: also a lost connection takes data for a while.
Write(l) ==
    /\ l.kind = "write" /\ l.pc = "run"
    /\ conns[l.conn].data
    /\ raws[conns[l.conn].raw] # "closed"
    /\ conns' = [conns EXCEPT ![l.conn].data = FALSE]
    /\ UNCHANGED <<state, conn, raws, notifys, pc, raw, err, loops, faults, overlapped, restVars>>

\* loopWrite sees that the Conn is closed, also when data has come while it
\* waited: wg.Done.
WriteEnds(l) ==
    /\ l.kind = "write" /\ l.pc = "run"
    /\ conns[l.conn].closed
    /\ loops' = loops \ {l}
    /\ UNCHANGED <<stateVars, notifys, pc, raw, err, faults, overlapped, restVars>>

Loop(l) == LoopBegin(l) \/ LoopFails(l) \/ LoopEnd(l) \/ Write(l) \/ WriteEnds(l)

\* The network loses a connection.
Lose(r) ==
    /\ raws[r] = "open"
    /\ faults < MaxFaults
    /\ faults' = faults + 1
    /\ raws' = [raws EXCEPT ![r] = "lost"]
    /\ UNCHANGED <<state, conn, conns, notifys, pc, raw, err, loops, overlapped, restVars>>

-----------------------------------------------------------------------------
Init ==
    /\ state = "Idle"
    /\ conn = 0
    /\ conns = << >>
    /\ raws = << >>
    /\ quit = FALSE
    /\ stop = "no"
    /\ notifys = {}
    /\ pc = [p \in Callers |-> IF p = RC THEN "test" ELSE "idle"]
    /\ raw = [p \in Callers |-> 0]
    /\ err = [p \in Callers |-> FALSE]
    /\ seen = 0
    /\ loops = {}
    /\ started = FALSE
    /\ faults = 0
    /\ overlapped = FALSE
    /\ crashed = FALSE

\* The goroutines have kept out of each other's way: the model follows the
\* program up to the first step that ends this.
Apart == ~overlapped /\ ~crashed

Next ==
    /\ Apart
    /\ \/ \E p \in Callers : dial(p)
       \/ reConnect
       \/ \E g \in Senders : Send(g) \/ GetNotify(g) \/ Await(g) \/ Timeout(g) \/ SendData(g)
       \/ ShutdownFire \/ ShutdownSet \/ ShutdownClose
       \/ \E l \in loops : Loop(l)
       \/ \E r \in DOMAIN raws : Lose(r)

Spec == Init /\ [][Next]_vars

\* Goroutines that can go on do; a dial ends, one way or the other, and timers
\* fire.  Nobody has to call Send or Shutdown.
LiveSpec ==
    /\ Spec
    /\ \A p \in Callers : WF_vars(Apart /\ (dial(p)))
    /\ WF_vars(Apart /\ (reConnect))
    /\ \A g \in Senders :
          WF_vars(Apart /\ (GetNotify(g) \/ Await(g) \/ Timeout(g) \/ SendData(g)))
    /\ WF_vars(Apart /\ (ShutdownSet \/ ShutdownClose))
    /\ WF_vars(Apart /\ (\E l \in loops : l.kind = "read" /\ Loop(l)))
    /\ WF_vars(Apart /\ (\E l \in loops : l.kind = "write" /\ Loop(l)))

-----------------------------------------------------------------------------
(* Properties.                                                             *)

\* The loops that run are those of the connection in the field, one reader and
\* one writer: dial waits for the loops of the last connection (dialer.go:75), so
\* that two readers never share a receiver.
LoopsServeCurrent ==
    Apart =>
        /\ Cardinality(loops) <= 2
        /\ \A l, m \in loops : l.kind = m.kind => l = m
        /\ \A l \in loops : l.pc # "new" => l.conn = conn

\* When Shutdown is over and no dial is under way the connection is closed, and
\* stays so: a dial that was under way has seen the Shutdown (dialer.go:87).
ShutdownCloses ==
    /\ stop = "done"
    /\ Apart
    /\ \A p \in Callers : ~InDial(p)
    => conns[conn].closed

\* The connection is up, with a reader on it.
Up ==
    /\ state = "Ready"
    /\ conns[conn].inited
    /\ raws[conns[conn].raw] = "open"
    /\ \E l \in loops : l.kind = "read" /\ l.conn = conn

\* A dialer that has started always gets its connection back, in the end, however
\* often it is lost, and whoever notices first: the loops, reConnect or a Send.
Reconnects == <>[](Up \/ quit \/ ~started \/ ~Apart)

\* Every Send ends: the dial it makes is not kept waiting for the loops of a
\* connection nobody closes.
SendEnds ==
    \A g \in Senders : pc[g] # "idle" ~> (pc[g] = "idle" \/ ~Apart)

=============================================================================
