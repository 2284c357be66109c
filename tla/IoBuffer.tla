------------------------------ MODULE IoBuffer ------------------------------
(***************************************************************************)
(* The read buffer of a virtual gRPC connection (common/io/buffer.go).  The *)
(* service's goroutine puts the packets it receives (SkymeshConn.OnRecv),  *)
(* the gRPC transport reads (SkymeshConn.Read, which is Get), sets read    *)
(* deadlines, and the connection manager closes `done'.                    *)
(*                                                                         *)
(* A step is a critical section of mu or a channel operation.  Bytes are   *)
(* numbered in the order in which Put got the lock; a packet is a sequence *)
(* of them and may be empty.  One goroutine puts and one reads.            *)
(***************************************************************************)
EXTENDS Integers, Sequences, SequencesExt

CONSTANTS
    MaxPuts,        \* bound: number of calls of Put
    MaxPacket,      \* bound: bytes in a packet
    ReadSizes,      \* lengths of the slices given to Get
    MaxDeadlines    \* bound: number of calls of SetTimeout

ASSUME SizesType ==
    /\ {MaxPuts, MaxPacket, MaxDeadlines} \subseteq Nat
    /\ ReadSizes \subseteq Nat \ {0}

VARIABLES
    puts,           \* number of calls of Put that were accepted
    sent,           \* number of bytes they held
    list,           \* IoBuffer.list, what is left of each packet
    consumerWaiting, ch,   \* ch, a channel of capacity 1, is full
    posting,        \* Put is between the unlock and the post to ch
    done,           \* the channel done is closed
    err,            \* IoBuffer.err is set
    armed, fired,   \* the timer runs; its channel holds a value
    deadlines,      \* number of calls of SetTimeout
    pc, size,       \* where the reader is, and the length of its slice
    read,           \* the bytes that Get has returned, in order
    eof             \* Get has returned IoBuffer.err

timerVars == <<armed, fired, deadlines>>
vars == <<puts, sent, list, consumerWaiting, ch, posting, done, err, timerVars,
          pc, size, read, eof>>

-----------------------------------------------------------------------------
\* Mutant: it wakes nobody.
Put_NoWakeup(k) ==
    /\ ~posting /\ ~err
    /\ puts < MaxPuts
    /\ puts' = puts + 1
    /\ sent' = sent + k
    /\ list' = Append(list, [i \in 1 .. k |-> sent + i])
    /\ consumerWaiting' = FALSE
    /\ UNCHANGED <<ch, posting, done, err, timerVars, pc, size, read, eof>>

\* Put, under the lock, of k bytes; once err is set it returns an error.
Put(k) ==
    /\ ~posting
    /\ ~err
    /\ puts < MaxPuts
    /\ puts' = puts + 1
    /\ sent' = sent + k
    /\ list' = Append(list, [i \in 1 .. k |-> sent + i])
    /\ posting' = consumerWaiting
    /\ consumerWaiting' = FALSE
    /\ UNCHANGED <<ch, done, err, timerVars, pc, size, read, eof>>

\* Put, the post that does not block.
Post ==
    /\ posting
    /\ posting' = FALSE
    /\ ch' = TRUE
    /\ UNCHANGED <<puts, sent, list, consumerWaiting, done, err, timerVars, pc, size, read, eof>>

\* SkymeshConn.OnClose.
OnClose ==
    /\ ~done
    /\ done' = TRUE
    /\ UNCHANGED <<puts, sent, list, consumerWaiting, ch, posting, err, timerVars,
                   pc, size, read, eof>>

\* SetTimeout: Reset with a deadline, Stop without.  Neither drains the channel.
SetTimeout(isZero) ==
    /\ deadlines < MaxDeadlines
    /\ deadlines' = deadlines + 1
    /\ armed' = ~isZero
    /\ UNCHANGED <<puts, sent, list, consumerWaiting, ch, posting, done, err, fired,
                   pc, size, read, eof>>

TimerFires ==
    /\ armed
    /\ armed' = FALSE
    /\ fired' = TRUE
    /\ UNCHANGED <<puts, sent, list, consumerWaiting, ch, posting, done, err, deadlines,
                   pc, size, read, eof>>

-----------------------------------------------------------------------------
(* Get.                                                                    *)

\* Mutant: what the slice has no room for is dropped with its packet.
copyOut_DropRest(l, room) ==
    [got |-> SubSeq(Head(l), 1, IF Len(Head(l)) > room THEN room ELSE Len(Head(l))),
     left |-> Tail(l)]

\* The copy loop: what goes into a slice of length `room', and what is left.
copyLoop[l \in Seq(Seq(Nat)) \ {<< >>}] ==
    [room \in Nat |->
        LET s == Head(l) IN
        IF Len(s) > room
        THEN [got |-> SubSeq(s, 1, room),
              left |-> <<SubSeq(s, room + 1, Len(s))>> \o Tail(l)]
        ELSE IF Len(l) = 1 \/ Len(s) = room
             THEN [got |-> s, left |-> Tail(l)]
             ELSE LET rest == copyLoop[Tail(l)][room - Len(s)]
                  IN [got |-> s \o rest.got, left |-> rest.left]]

copyOut(l, room) == copyLoop[l][room]

Get(n) ==
    /\ pc = "idle"
    /\ pc' = "check"
    /\ size' = n
    /\ UNCHANGED <<puts, sent, list, consumerWaiting, ch, posting, done, err, timerVars, read, eof>>

\* Under the lock: data first, then the end, then the announcement.
Data ==
    /\ pc = "check"
    /\ list # << >>
    /\ LET r == copyOut(list, size) IN read' = read \o r.got /\ list' = r.left
    /\ consumerWaiting' = FALSE
    /\ pc' = "idle"
    /\ UNCHANGED <<puts, sent, ch, posting, done, err, timerVars, size, eof>>

End ==
    /\ pc = "check"
    /\ list = << >>
    /\ err
    /\ eof' = TRUE
    /\ consumerWaiting' = FALSE
    /\ pc' = "idle"
    /\ UNCHANGED <<puts, sent, list, ch, posting, done, err, timerVars, size, read>>

Announce ==
    /\ pc = "check"
    /\ list = << >>
    /\ ~err
    /\ consumerWaiting' = TRUE
    /\ pc' = "select"
    /\ UNCHANGED <<puts, sent, list, ch, posting, done, err, timerVars, size, read, eof>>

Wake ==
    /\ pc = "select"
    /\ ch
    /\ ch' = FALSE
    /\ pc' = "check"
    /\ UNCHANGED <<puts, sent, list, consumerWaiting, posting, done, err, timerVars,
                   size, read, eof>>

\* The deadline: the value is received, then the announcement is taken back.
Timeout ==
    /\ pc = "select"
    /\ fired
    /\ fired' = FALSE
    /\ pc' = "timeout"
    /\ UNCHANGED <<puts, sent, list, consumerWaiting, ch, posting, done, err, armed, deadlines,
                   size, read, eof>>

ErrTimeout ==
    /\ pc = "timeout"
    /\ consumerWaiting' = FALSE
    /\ pc' = "idle"
    /\ UNCHANGED <<puts, sent, list, ch, posting, done, err, timerVars, size, read, eof>>

\* Mutants: the end is returned without another look at the list; err is
\* not set.
Finish_NoCheck ==
    /\ pc = "select"
    /\ done
    /\ err' = TRUE
    /\ eof' = TRUE
    /\ pc' = "idle"
    /\ UNCHANGED <<puts, sent, list, consumerWaiting, ch, posting, done, timerVars, size, read>>

Finish_NoErr ==
    /\ pc = "select"
    /\ done
    /\ pc' = "check"
    /\ UNCHANGED <<puts, sent, list, consumerWaiting, ch, posting, done, err, timerVars,
                   size, read, eof>>

\* done is closed: Finish, and goto checklist.  The reader comes here once:
\* with err set it does not wait again.
Finish ==
    /\ pc = "select"
    /\ done
    /\ err' = TRUE
    /\ pc' = "check"
    /\ UNCHANGED <<puts, sent, list, consumerWaiting, ch, posting, done, timerVars,
                   size, read, eof>>

-----------------------------------------------------------------------------
Init ==
    /\ puts = 0
    /\ sent = 0
    /\ list = << >>
    /\ consumerWaiting = FALSE
    /\ ch = FALSE
    /\ posting = FALSE
    /\ done = FALSE
    /\ err = FALSE
    /\ armed = FALSE
    /\ fired = FALSE
    /\ deadlines = 0
    /\ pc = "idle"
    /\ size = 1
    /\ read = << >>
    /\ eof = FALSE

Reader ==
    \/ \E n \in ReadSizes : Get(n)
    \/ Data \/ End \/ Announce \/ Wake \/ Timeout \/ ErrTimeout \/ Finish

Next ==
    \/ \E k \in 0 .. MaxPacket : Put(k)
    \/ Post
    \/ OnClose
    \/ \E isZero \in BOOLEAN : SetTimeout(isZero)
    \/ TimerFires
    \/ Reader

Spec == Init /\ [][Next]_vars

\* The transport goes on reading, and a Put that has begun ends.
LiveSpec == Spec /\ WF_vars(Reader) /\ WF_vars(Post)

-----------------------------------------------------------------------------
(* Properties.                                                             *)

\* What was read and what is buffered is what was put, byte by byte: the copy
\* loop neither drops nor repeats the rest of a packet.
BytesInOrder == read \o FlattenSeq(list) = [i \in 1 .. sent |-> i]

\* The end is reported after all data: everything Put accepted, also after the
\* connection was closed, has been read by then.
EndAfterData == eof => Len(read) = sent

\* A reader that waits has nothing to read, or is being woken: timeouts, which
\* leave the wakeup of a Put behind, do not lose one.
NoLostWakeup ==
    pc = "select" => /\ list # << >> => ch \/ posting
                     /\ ~consumerWaiting => ch \/ posting
                     /\ ~err

\* The close of the connection reaches the reader.
EndIsReported == done ~> eof
=============================================================================
