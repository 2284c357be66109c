------------------------------ MODULE RpcCall ------------------------------
(***************************************************************************)
(* Calls of one inner service (extension/inner_service): CallService packs *)
(* a request, sends it and waits for the reply that carries its session.   *)
(*                                                                         *)
(* A call is made by a goroutine of its own.  Replies are handled one by   *)
(* one on the service's goroutine, which runs OnMessage.  The target is a  *)
(* service of another process, so that what is sent is copied before       *)
(* rawSend returns (smpack.PackSSMsg, agent/sidecar.go:493).  packBuffer   *)
(* belongs to all calls and has no lock: a step writes or reads one of its *)
(* parts, the head (session) and the body (here the call it belongs to).   *)
(***************************************************************************)
EXTENDS Integers, Sequences

CONSTANTS
    Calls,          \* calls of CallService
    NoCall,
    Timed,          \* the calls with timeout_ms > 0
    OverlapPacking  \* whether one call may pack while another one does

ASSUME CallsType == NoCall \notin Calls /\ Timed \subseteq Calls /\ OverlapPacking \in BOOLEAN

VARIABLES
    seq,            \* RpcFramework.seq
    session,        \* reqSession of a call, 0 before it has one
    pc,             \* where a call is
    packBuffer,     \* SMServiceImpl.packBuffer
    requests,       \* packets sent to the target
    replies,        \* packets sent back
    pending,        \* keys of RpcFramework.pending
    done,           \* what the channel of a call's session holds
    waking,         \* WakeUp between the unlock and the send to the channel
    reply           \* what a call has returned

vars == <<seq, session, pc, packBuffer, requests, replies, pending, done, waking, reply>>

Packet(s, c) == [seq |-> s, body |-> c]
NoPacket == Packet(0, NoCall)
Go(c, from, to) == pc[c] = from /\ pc' = [pc EXCEPT ![c] = to]

-----------------------------------------------------------------------------
(* CallService, on the goroutine of call c.                                *)

\* genSessIdWithExclude({0}): an atomic increment.  It does not wrap here.
genSessID(c) ==
    /\ Go(c, "start", "head")
    /\ seq' = seq + 1
    /\ session' = [session EXCEPT ![c] = seq + 1]
    /\ UNCHANGED <<packBuffer, requests, replies, pending, done, waking, reply>>

\* rawSend: a method or a request that is too long is an error.
RejectSend(c) ==
    /\ Go(c, "head", "failed")
    /\ UNCHANGED <<seq, session, packBuffer, requests, replies, pending, done, waking, reply>>

PackHead(c) ==
    /\ OverlapPacking \/ \A d \in Calls : pc[d] \notin {"body", "send"}
    /\ Go(c, "head", "body")
    /\ packBuffer' = [packBuffer EXCEPT !.seq = session[c]]
    /\ UNCHANGED <<seq, session, requests, replies, pending, done, waking, reply>>

PackBody(c) ==
    /\ Go(c, "body", "send")
    /\ packBuffer' = [packBuffer EXCEPT !.body = c]
    /\ UNCHANGED <<seq, session, requests, replies, pending, done, waking, reply>>

\* SendBySvcUrl: it fails while the target is not known here.
SendBySvcUrl(c) ==
    /\ \/ Go(c, "send", "sent") /\ requests' = Append(requests, packBuffer)
       \/ Go(c, "send", "failed") /\ UNCHANGED requests
    /\ UNCHANGED <<seq, session, packBuffer, replies, pending, done, waking, reply>>

\* Wait, the registration; a session in use is an error.
Wait(c) ==
    /\ \/ /\ session[c] \in pending
          /\ Go(c, "sent", "failed")
          /\ UNCHANGED pending
       \/ /\ session[c] \notin pending
          /\ Go(c, "sent", "waiting")
          /\ pending' = pending \cup {session[c]}
    /\ UNCHANGED <<seq, session, packBuffer, requests, replies, done, waking, reply>>

\* Wait: the timer fires, and then, under the lock, the session goes.
Timer(c) ==
    /\ c \in Timed
    /\ Go(c, "waiting", "expired")
    /\ UNCHANGED <<seq, session, packBuffer, requests, replies, pending, done, waking, reply>>

\* Mutant: the session stays.
Expire_KeepSession(c) ==
    /\ Go(c, "expired", "failed")
    /\ UNCHANGED <<seq, session, packBuffer, requests, replies, pending, done, waking, reply>>

Expire(c) ==
    /\ Go(c, "expired", "failed")
    /\ pending' = pending \ {session[c]}
    /\ UNCHANGED <<seq, session, packBuffer, requests, replies, done, waking, reply>>

Return(c) ==
    /\ done[c] # NoCall
    /\ Go(c, "waiting", "returned")
    /\ reply' = [reply EXCEPT ![c] = done[c]]
    /\ done' = [done EXCEPT ![c] = NoCall]
    /\ UNCHANGED <<seq, session, packBuffer, requests, replies, pending, waking>>

\* An error leaves CallService with the assertion rsp.([]byte) on nil.  The other
\* calls go on if the caller recovers; if not, the process ends here.
Panic(c) ==
    /\ Go(c, "failed", "panicked")
    /\ UNCHANGED <<seq, session, packBuffer, requests, replies, pending, done, waking, reply>>

-----------------------------------------------------------------------------
\* OnMessage of a request at the target: no method or an error in it ends it
\* without a reply.
OnRequest ==
    /\ requests # << >>
    /\ requests' = Tail(requests)
    /\ \/ replies' = Append(replies, Head(requests))
       \/ UNCHANGED replies
    /\ UNCHANGED <<seq, session, pc, packBuffer, pending, done, waking, reply>>

\* OnMessage of a reply: WakeUp, under the lock.  A reply to no session is
\* dropped.
WakeUp ==
    /\ waking = NoPacket
    /\ replies # << >>
    /\ LET m == Head(replies) IN
       /\ waking' = IF m.seq \in pending THEN m ELSE NoPacket
       /\ pending' = pending \ {m.seq}
    /\ replies' = Tail(replies)
    /\ UNCHANGED <<seq, session, pc, packBuffer, requests, done, reply>>

\* Mutant: the channel of another waiting call.
WakeUpSend_Any ==
    /\ waking # NoPacket
    /\ done' = [c \in Calls |-> IF pc[c] = "waiting" THEN waking.body ELSE done[c]]
    /\ waking' = NoPacket
    /\ UNCHANGED <<seq, session, pc, packBuffer, requests, replies, pending, reply>>

\* Mutant: nothing is sent to the channel.
WakeUpSend_None ==
    /\ waking # NoPacket
    /\ waking' = NoPacket
    /\ UNCHANGED <<seq, session, pc, packBuffer, requests, replies, pending, done, reply>>

\* WakeUp, the send that does not block: a full channel is left as it is.
WakeUpSend ==
    /\ waking # NoPacket
    /\ done' = [c \in Calls |->
                  IF session[c] = waking.seq /\ done[c] = NoCall THEN waking.body ELSE done[c]]
    /\ waking' = NoPacket
    /\ UNCHANGED <<seq, session, pc, packBuffer, requests, replies, pending, reply>>

-----------------------------------------------------------------------------
Init ==
    /\ seq = 0
    /\ session = [c \in Calls |-> 0]
    /\ pc = [c \in Calls |-> "start"]
    /\ packBuffer = NoPacket
    /\ requests = << >>
    /\ replies = << >>
    /\ pending = {}
    /\ done = [c \in Calls |-> NoCall]
    /\ waking = NoPacket
    /\ reply = [c \in Calls |-> NoCall]

CallService(c) ==
    \/ genSessID(c) \/ RejectSend(c) \/ PackHead(c) \/ PackBody(c) \/ SendBySvcUrl(c)
    \/ Wait(c) \/ Timer(c) \/ Expire(c) \/ Return(c) \/ Panic(c)

OnMessage == OnRequest \/ WakeUp \/ WakeUpSend

Next == OnMessage \/ \E c \in Calls : CallService(c)

Spec == Init /\ [][Next]_vars

\* Goroutines that can run do: those of the calls, timers included, and the
\* service's own.
LiveSpec ==
    /\ Spec
    /\ \A c \in Calls : WF_vars(CallService(c))
    /\ WF_vars(WakeUp \/ WakeUpSend)

-----------------------------------------------------------------------------
(* Properties.                                                             *)

\* A call that returns has the reply to its own request, whatever replies of
\* other and of earlier calls, timed out or not, arrive.
ReplyIsMine == \A c \in Calls : pc[c] = "returned" => reply[c] = c

\* A session is pending only while its call waits: neither a timeout nor a
\* reply that races it leaves an entry behind.
NoSessionLeft ==
    \A s \in pending : \E c \in Calls : session[c] = s /\ pc[c] \in {"waiting", "expired"}

\* WakeUp finds the channel empty, and Wait finds its session free: the errors
\* RPC_WAKEUP_ERR and RPC_SESSION_REPEAT_ERR are never returned.
NoChannelFull ==
    /\ waking # NoPacket => \A c \in Calls : session[c] = waking.seq => done[c] = NoCall
    /\ \A c \in Calls : pc[c] = "sent" => session[c] \notin pending

\* A reply that finds its call waiting ends it.
ReplyEndsCall ==
    \A c \in Calls :
        (waking # NoPacket /\ waking.seq = session[c]) ~> pc[c] \in {"returned", "panicked"}
=============================================================================
