-------------------------------- MODULE Link --------------------------------
(***************************************************************************)
(* A connection from end to end: the writer of ConnWriter, the TCP stream, *)
(* and at the other end loopRead (common/network/conn.go) with the framing *)
(* of proto/pack.go, which every Receiver.OnMessage begins with.           *)
(*                                                                         *)
(* TCP keeps the bytes and their order and nothing else: a Read returns    *)
(* any part of what is under way.  The k-th message is a frame of cells    *)
(* <<k, 1>>, <<k, 2>>, ...: PkgHeadLen of head, which holds the length,    *)
(* then Body[k] of body.                                                   *)
(***************************************************************************)
EXTENDS ConnWriter

CONSTANTS
    PkgHeadLen,     \* length of the head
    Body            \* length of the body of each message

ASSUME FrameLengths ==
    PkgHeadLen \in Nat \ {0} /\ Body \in [1 .. MaxSends -> Nat]

VARIABLES
    read,           \* cells the reader has taken off the stream
    rbuff,          \* Conn.rbuff of the other end
    rpc,            \* where loopRead is
    delivered       \* the frames OnMessage has been given

linkVars == <<read, rbuff, rpc, delivered>>

\* Pack.
Frame(k) == [i \in 1 .. PkgHeadLen + Body[k] |-> <<k, i>>]

\* The stream of the frames 1 .. n.
Stream[n \in Nat] == IF n = 0 THEN << >> ELSE Stream[n - 1] \o Frame(n)

\* The length a head stands for; a buffer that does not begin with a head is
\* read as if it did, and gives some number.
HeadValue(b) ==
    IF \A i \in 1 .. PkgHeadLen : b[i] = <<b[1][1], i>> THEN Body[b[1][1]] ELSE 0

\* Mutant: the length in the head is taken to include the head.
Unpack_Whole(b) ==
    IF Len(b) < PkgHeadLen \/ Len(b) < HeadValue(b) THEN 0
    ELSE IF HeadValue(b) > PkgHeadLen THEN HeadValue(b) ELSE PkgHeadLen

\* Unpack: how many cells the first message takes, or 0 when it is not all there.
Unpack(b) ==
    IF Len(b) < PkgHeadLen \/ Len(b) < PkgHeadLen + HeadValue(b) THEN 0
    ELSE PkgHeadLen + HeadValue(b)

LinkInit ==
    /\ Init
    /\ read = 0
    /\ rbuff = << >>
    /\ rpc = "read"
    /\ delivered = << >>

\* rawConn.Read returns n cells and rbuff takes them.
Read(n) ==
    LET s == Stream[Len(written)] IN
    /\ rpc = "read"
    /\ n \in 1 .. Len(s) - read
    /\ rbuff' = rbuff \o SubSeq(s, read + 1, read + n)
    /\ read' = read + n
    /\ rpc' = "message"
    /\ UNCHANGED <<vars, delivered>>

\* The read fails, once the connection is closed or broken: what is still on
\* the stream is lost.
ReadFails ==
    /\ rpc = "read" /\ closed
    /\ rpc' = "done"
    /\ UNCHANGED <<vars, read, rbuff, delivered>>

\* Mutant: one message for each Read.
OnMessage_Once ==
    LET n == Unpack(rbuff) IN
    /\ rpc = "message"
    /\ rbuff' = SubSeq(rbuff, n + 1, Len(rbuff))
    /\ delivered' = IF n > 0 THEN Append(delivered, SubSeq(rbuff, 1, n)) ELSE delivered
    /\ rpc' = "read"
    /\ UNCHANGED <<vars, read>>

\* The inner loop: OnMessage gets the buffer until it takes nothing of it.  Its
\* error is logged only.
OnMessage ==
    LET n == Unpack(rbuff) IN
    /\ rpc = "message"
    /\ IF n > 0
       THEN /\ rbuff' = SubSeq(rbuff, n + 1, Len(rbuff))
            /\ delivered' = Append(delivered, SubSeq(rbuff, 1, n))
            /\ UNCHANGED rpc
       ELSE /\ rpc' = "read"
            /\ UNCHANGED <<rbuff, delivered>>
    /\ UNCHANGED <<vars, read>>

loopRead == (\E n \in 1 .. Len(Stream[Len(written)]) - read : Read(n)) \/ OnMessage

LinkNext == (Next /\ UNCHANGED linkVars) \/ loopRead \/ ReadFails

LinkSpec == LinkInit /\ [][LinkNext]_<<vars, linkVars>>

\* Both loops go on, and a Send that has begun.
LinkLiveSpec ==
    /\ LinkSpec
    /\ WF_<<vars, linkVars>>(loopWrite /\ UNCHANGED linkVars)
    /\ WF_<<vars, linkVars>>(loopRead)
    /\ \A g \in Senders : WF_<<vars, linkVars>>(Post(g) /\ UNCHANGED linkVars)

-----------------------------------------------------------------------------
(* Correctness.                                                            *)

LinkChannel == INSTANCE Channel WITH
    Items <- {Frame(k) : k \in 1 .. MaxSends},
    in <- [k \in 1 .. sent |-> Frame(k)],
    out <- delivered

\* From Send to OnMessage the connection is a channel: the receiver is given
\* the messages that were sent, whole, each once and in order, however the
\* writer batches them and TCP cuts them up.
LinkIsChannel == LinkChannel!Spec

\* A message that the writer has written is delivered, unless the connection
\* ends: the inner loop leaves no whole message in rbuff (conn.go:60).
WrittenIsDelivered ==
    \A k \in 1 .. MaxSends :
       Len(written) >= k ~> Len(delivered) >= k \/ rpc = "done"
=============================================================================
