----------------------------- MODULE ConnWriter -----------------------------
(***************************************************************************)
(* The write side of a connection (common/network/conn.go): Send puts data *)
(* in wbuff under the lock and wakes the writer goroutine, loopWrite, when *)
(* it has announced that it waits.  Every connection of skymesh, between   *)
(* agents and to the name server, sends through it.                        *)
(*                                                                         *)
(* A step is what one goroutine does between two points where another can  *)
(* get in: a critical section of mu, a channel operation, a socket write.  *)
(* Data is numbered in the order in which Send got the lock.               *)
(***************************************************************************)
EXTENDS Integers, Sequences

CONSTANTS
    Senders,        \* goroutines that call Send
    MaxSends        \* bound: number of calls of Send

ASSUME MaxSendsType == MaxSends \in Nat

VARIABLES
    sent,               \* number of calls of Send that have written to wbuff
    wbuff,              \* Conn.wbuff
    consumerWaiting,    \* Conn.consumerWaiting
    waiting,            \* Conn.waiting, a channel of capacity 1, is full
    posting,            \* senders between the unlock and the post to waiting
    closed,             \* Conn.close has fired
    pc,                 \* where loopWrite is
    wbuf,               \* what loopWrite has taken out of wbuff
    written             \* what rawConn.Write has been given, in order

vars == <<sent, wbuff, consumerWaiting, waiting, posting, closed, pc, wbuf, written>>

-----------------------------------------------------------------------------
\* Send, under the lock: closed connections take data too.
Send(g) ==
    /\ g \notin posting
    /\ sent < MaxSends
    /\ sent' = sent + 1
    /\ wbuff' = Append(wbuff, sent + 1)
    /\ consumerWaiting' = FALSE
    /\ posting' = IF consumerWaiting THEN posting \cup {g} ELSE posting
    /\ UNCHANGED <<waiting, closed, pc, wbuf, written>>

\* Mutant: the flag is consulted again.
Post_Recheck(g) ==
    /\ g \in posting
    /\ posting' = posting \ {g}
    /\ waiting' = consumerWaiting
    /\ UNCHANGED <<sent, wbuff, consumerWaiting, closed, pc, wbuf, written>>

\* Send, the non-blocking post; a full channel is left as it is.
Post(g) ==
    /\ g \in posting
    /\ posting' = posting \ {g}
    /\ waiting' = TRUE
    /\ UNCHANGED <<sent, wbuff, consumerWaiting, closed, pc, wbuf, written>>

\* Close, by the owner or after the reader's loop has failed.
Close ==
    /\ ~closed
    /\ closed' = TRUE
    /\ UNCHANGED <<sent, wbuff, consumerWaiting, waiting, posting, pc, wbuf, written>>

-----------------------------------------------------------------------------
(* loopWrite.                                                              *)

\* Mutant: what is taken stays in the buffer.
Take_Keep ==
    /\ pc = "check"
    /\ wbuff # << >>
    /\ wbuf' = wbuff
    /\ pc' = "write"
    /\ UNCHANGED <<sent, wbuff, consumerWaiting, waiting, posting, closed, written>>

\* Takes all there is: wbuf grows to the length of wbuff first.
Take ==
    /\ pc = "check"
    /\ wbuff # << >>
    /\ wbuf' = wbuff
    /\ wbuff' = << >>
    /\ pc' = "write"
    /\ UNCHANGED <<sent, consumerWaiting, waiting, posting, closed, written>>

FindEmpty ==
    /\ pc = "check"
    /\ wbuff = << >>
    /\ pc' = "arm"
    /\ UNCHANGED <<sent, wbuff, consumerWaiting, waiting, posting, closed, wbuf, written>>

Write ==
    /\ pc = "write"
    /\ written' = written \o wbuf
    /\ wbuf' = << >>
    /\ pc' = "check"
    /\ UNCHANGED <<sent, wbuff, consumerWaiting, waiting, posting, closed>>

\* rawConn.Write fails, on a closed or a broken connection: loopWrite returns and
\* its goroutine closes the connection.
WriteFails ==
    /\ pc = "write"
    /\ pc' = "done"
    /\ closed' = TRUE
    /\ UNCHANGED <<sent, wbuff, consumerWaiting, waiting, posting, wbuf, written>>

\* waitdata: the lock is taken anew.
Arm ==
    /\ pc = "arm"
    /\ consumerWaiting' = TRUE
    /\ pc' = "select"
    /\ UNCHANGED <<sent, wbuff, waiting, posting, closed, wbuf, written>>

Wake ==
    /\ pc = "select"
    /\ waiting
    /\ waiting' = FALSE
    /\ pc' = "check"
    /\ UNCHANGED <<sent, wbuff, consumerWaiting, posting, closed, wbuf, written>>

Quit ==
    /\ pc = "select"
    /\ closed
    /\ pc' = "done"
    /\ UNCHANGED <<sent, wbuff, consumerWaiting, waiting, posting, closed, wbuf, written>>

loopWrite == Take \/ FindEmpty \/ Write \/ WriteFails \/ Arm \/ Wake \/ Quit

-----------------------------------------------------------------------------
Init ==
    /\ sent = 0
    /\ wbuff = << >>
    /\ consumerWaiting = FALSE
    /\ waiting = FALSE
    /\ posting = {}
    /\ closed = FALSE
    /\ pc = "check"
    /\ wbuf = << >>
    /\ written = << >>

Next == (\E g \in Senders : Send(g) \/ Post(g)) \/ Close \/ loopWrite

Spec == Init /\ [][Next]_vars

\* The goroutines that run go on: loopWrite, and a Send that has begun.
LiveSpec == Spec /\ WF_vars(loopWrite) /\ \A g \in Senders : WF_vars(Post(g))

-----------------------------------------------------------------------------
(* Properties.                                                             *)

\* The variables hold values of their Go types.
TypeOK ==
    /\ sent \in 0 .. MaxSends
    /\ wbuff \in Seq(1 .. MaxSends)
    /\ consumerWaiting \in BOOLEAN
    /\ waiting \in BOOLEAN
    /\ posting \in SUBSET Senders
    /\ closed \in BOOLEAN
    /\ pc \in {"check", "write", "arm", "select", "done"}
    /\ wbuf \in Seq(1 .. MaxSends)
    /\ written \in Seq(1 .. MaxSends)

\* What has been written, is being written and is buffered is all that was sent,
\* in the order of the calls of Send: nothing is lost, repeated or overtaken,
\* although loopWrite calls Next on a buffer that Read has emptied (conn.go:97).
InOrder ==
    LET all == written \o wbuf \o wbuff IN
    /\ Len(all) = sent
    /\ \A i \in 1 .. sent : all[i] = i

\* One wakeup at a time: while one is under way nobody else is told to wake the
\* writer, so that the post never finds the channel full (conn.go:132) and no
\* token is left over for a later round of the loop.
OneWakeup ==
    /\ waiting => posting = {}
    /\ \A g, h \in posting : g = h
    /\ consumerWaiting => ~waiting /\ posting = {}
    /\ waiting \/ posting # {} => pc \in {"select", "done"}

\* A writer that waits for a wakeup has announced it, or one is under way.
WakeupComes ==
    pc = "select" => consumerWaiting \/ waiting \/ posting # {}

\* A Send that finds the writer waiting gets everything up to and including its
\* own data written, unless the connection ends.
SendFlushes ==
    \A k \in 1 .. MaxSends :
        (posting # {} /\ sent = k) ~> (Len(written) >= k \/ pc = "done")

WriterChannel == INSTANCE Channel WITH
    Items <- 1 .. MaxSends,
    in <- [k \in 1 .. sent |-> k],
    out <- written

\* From Send to rawConn.Write the connection is a channel: what is written is
\* what was sent, each item once and in the order in which Send got the lock,
\* and nothing that was written is taken back.
WriterIsChannel == WriterChannel!Spec
=============================================================================
