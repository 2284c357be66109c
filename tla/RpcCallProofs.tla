--------------------------- MODULE RpcCallProofs ---------------------------
(* Proofs about RpcCall, for any number of calls: sessions and channels    *)
(* always, replies when the calls take turns in packing.                   *)
EXTENDS RpcCall, TLAPS, SequenceTheorems

Packets == [seq : Nat, body : Calls \cup {NoCall}]
Early == {"start", "head", "body", "send", "sent"}
Places == Early \cup {"waiting", "expired", "failed", "returned", "panicked"}

TypeOK ==
    /\ seq \in Nat
    /\ session \in [Calls -> Nat]
    /\ pc \in [Calls -> Places]
    /\ packBuffer \in Packets
    /\ requests \in Seq(Packets)
    /\ replies \in Seq(Packets)
    /\ pending \in SUBSET Nat
    /\ done \in [Calls -> Calls \cup {NoCall}]
    /\ waking \in Packets
    /\ reply \in [Calls -> Calls \cup {NoCall}]

\* Sessions are unique.
SessionsUnique ==
    /\ \A c \in Calls : session[c] <= seq
    /\ \A c \in Calls : session[c] = 0 <=> pc[c] = "start"
    /\ \A c, d \in Calls : session[c] = session[d] /\ session[c] # 0 => c = d
    /\ pending \subseteq 1 .. seq
    /\ waking # NoPacket => waking.seq \in 1 .. seq

\* A session on its way to be woken, or woken, is not pending any more, and its
\* call has been waiting.
WokenOnce ==
    \A c \in Calls :
        /\ done[c] # NoCall => session[c] \notin pending /\ pc[c] \notin Early
        /\ waking # NoPacket /\ waking.seq = session[c]
              => session[c] \notin pending /\ pc[c] \notin Early /\ done[c] = NoCall

SInv == TypeOK /\ SessionsUnique /\ NoSessionLeft /\ WokenOnce

LEMMA NoPacketType == NoPacket \in Packets
  BY DEF NoPacket, Packet, Packets

LEMMA SInit == Init => SInv
  BY NoPacketType, CallsType
     DEF Init, SInv, TypeOK, SessionsUnique, NoSessionLeft, WokenOnce, Places, Early

LEMMA TypeStep == TypeOK /\ [Next]_vars => TypeOK'
<1> SUFFICES ASSUME TypeOK, [Next]_vars PROVE TypeOK'
  OBVIOUS
<1> USE DEF TypeOK, Places, Early
<1>1. ASSUME NEW c \in Calls, CallService(c) PROVE TypeOK'
  <2>1. CASE genSessID(c)
    BY <2>1 DEF genSessID, Go
  <2>2. CASE PackHead(c)
    BY <2>2 DEF PackHead, Go, Packets
  <2>3. CASE PackBody(c)
    BY <2>3 DEF PackBody, Go, Packets
  <2>4. CASE SendBySvcUrl(c)
    <3>1. requests' = requests \/ requests' = Append(requests, packBuffer)
      BY <2>4 DEF SendBySvcUrl, Go
    <3>2. requests' \in Seq(Packets)
      <4>1. Append(requests, packBuffer) \in Seq(Packets)
        BY AppendProperties
      <4> QED
        BY <3>1, <4>1
    <3>3. pc' \in [Calls -> Places]
      BY <2>4 DEF SendBySvcUrl, Go
    <3> QED
      BY <2>4, <3>2, <3>3 DEF SendBySvcUrl
  <2>5. CASE Wait(c)
    <3>1. pending' = pending \/ pending' = pending \cup {session[c]}
      BY <2>5 DEF Wait, Go
    <3>2. pc' \in [Calls -> Places]
      BY <2>5 DEF Wait, Go
    <3>3. pending \cup {session[c]} \in SUBSET Nat
      OBVIOUS
    <3>4. pending' \in SUBSET Nat
      BY <3>1, <3>3
    <3> QED
      BY <2>5, <3>2, <3>4 DEF Wait
  <2>6. CASE Timer(c)
    BY <2>6 DEF Timer, Go
  <2>7. CASE Expire(c)
    BY <2>7 DEF Expire, Go
  <2>8. CASE Return(c)
    BY <2>8 DEF Return, Go
  <2>9. CASE Panic(c) \/ RejectSend(c)
    BY <2>9 DEF Panic, RejectSend, Go
  <2> QED
    BY <1>1, <2>1, <2>2, <2>3, <2>4, <2>5, <2>6, <2>7, <2>8, <2>9 DEF CallService
<1>2. CASE OnRequest
  <2>1. Head(requests) \in Packets /\ Tail(requests) \in Seq(Packets)
    BY <1>2 DEF OnRequest
  <2>2. replies' = replies \/ replies' = Append(replies, Head(requests))
    BY <1>2 DEF OnRequest
  <2>3. Append(replies, Head(requests)) \in Seq(Packets)
    BY <2>1, AppendProperties
  <2>4. replies' \in Seq(Packets)
    BY <2>2, <2>3
  <2> QED
    BY <1>2, <2>1, <2>4 DEF OnRequest
<1>3. CASE WakeUp
  <2>1. Head(replies) \in Packets /\ Tail(replies) \in Seq(Packets)
    BY <1>3 DEF WakeUp
  <2>2. waking' \in Packets
    BY <1>3, <2>1, NoPacketType DEF WakeUp
  <2> QED
    BY <1>3, <2>1, <2>2 DEF WakeUp
<1>4. CASE WakeUpSend
  <2>1. waking.body \in Calls \cup {NoCall}
    BY DEF Packets
  <2> QED
    BY <1>4, <2>1, NoPacketType DEF WakeUpSend
<1>5. CASE UNCHANGED vars
  BY <1>5 DEF vars
<1> QED
  BY <1>1, <1>2, <1>3, <1>4, <1>5 DEF Next, OnMessage

\* A call that only moves on, and does not move out of the wait.
LEMMA MoveOn ==
    ASSUME SInv, NEW c \in Calls, NEW from, NEW to, Go(c, from, to),
           UNCHANGED <<seq, session, pending, done, waking>>,
           from # "start", to # "start",
           from \in {"waiting", "expired"} => to \in {"waiting", "expired"},
           to \in Early => from \in Early
    PROVE  (SessionsUnique /\ NoSessionLeft /\ WokenOnce)'
<1>1. pc[c] = from /\ pc'[c] = to /\ \A d \in Calls : d # c => pc'[d] = pc[d]
  BY DEF Go, SInv, TypeOK
<1>2. SessionsUnique'
  BY <1>1 DEF SInv, SessionsUnique
<1>3. NoSessionLeft'
  BY <1>1 DEF SInv, NoSessionLeft
<1>4. WokenOnce'
  BY <1>1 DEF SInv, WokenOnce
<1> QED
  BY <1>2, <1>3, <1>4

LEMMA SStep == SInv /\ [Next]_vars => SInv'
<1> SUFFICES ASSUME SInv, [Next]_vars PROVE (SessionsUnique /\ NoSessionLeft /\ WokenOnce)'
  BY TypeStep DEF SInv
<1> USE DEF SInv, TypeOK, SessionsUnique, NoSessionLeft, WokenOnce
<1>1. ASSUME NEW c \in Calls, CallService(c) PROVE (SessionsUnique /\ NoSessionLeft /\ WokenOnce)'
  <2>1. CASE genSessID(c)
    <3>1. session[c] = 0 /\ session' = [session EXCEPT ![c] = seq + 1] /\ seq' = seq + 1
      BY <2>1 DEF genSessID, Go
    <3>2. SessionsUnique'
      BY <2>1, <3>1 DEF genSessID, Go
    <3>3. \A d \in Calls : session[d] # 0 => session'[d] = session[d] /\ pc'[d] = pc[d]
      BY <2>1, <3>1 DEF genSessID, Go
    <3>4. NoSessionLeft'
      <4> SUFFICES ASSUME NEW s \in pending'
                   PROVE  (\E d \in Calls : session[d] = s /\ pc[d] \in {"waiting", "expired"})'
        OBVIOUS
      <4>1. s \in pending /\ s # 0
        BY <2>1 DEF genSessID
      <4>2. PICK d \in Calls : session[d] = s /\ pc[d] \in {"waiting", "expired"}
        BY <4>1
      <4> QED
        BY <3>3, <4>1, <4>2
    <3>5. waking # NoPacket => waking.seq # seq + 1
      OBVIOUS
    <3>6. done[c] = NoCall /\ seq + 1 \notin pending
      BY <2>1 DEF genSessID, Go, Early
    <3>7. WokenOnce'
      BY <2>1, <3>1, <3>3, <3>5, <3>6 DEF genSessID, Go, Early
    <3> QED
      BY <3>2, <3>4, <3>7
  <2>2. CASE PackHead(c)
    BY <2>2, MoveOn DEF PackHead, Early
  <2>3. CASE PackBody(c)
    BY <2>3, MoveOn DEF PackBody, Early
  <2>4. CASE SendBySvcUrl(c)
    <3>1. CASE Go(c, "send", "sent")
      BY <2>4, <3>1, MoveOn DEF SendBySvcUrl, Early
    <3>2. CASE Go(c, "send", "failed")
      BY <2>4, <3>2, MoveOn DEF SendBySvcUrl, Early
    <3> QED
      BY <2>4, <3>1, <3>2 DEF SendBySvcUrl
  <2>5. CASE Wait(c)
    <3>1. CASE session[c] \in pending /\ Go(c, "sent", "failed") /\ UNCHANGED pending
      <4>1. PICK d \in Calls : session[d] = session[c] /\ pc[d] \in {"waiting", "expired"}
        BY <3>1
      <4>2. pc[c] = "sent" /\ session[c] # 0 /\ c = d
        BY <3>1, <4>1 DEF Go
      <4> QED
        BY <4>1, <4>2
    <3>2. CASE session[c] \notin pending /\ Go(c, "sent", "waiting")
                /\ pending' = pending \cup {session[c]}
      <4>0. session[c] \in 1 .. seq /\ pc[c] = "sent"
        BY <3>2 DEF Go
      <4>1. SessionsUnique'
        BY <2>5, <3>2, <4>0 DEF Wait, Go
      <4>2. NoSessionLeft'
        BY <2>5, <3>2 DEF Wait, Go
      <4>3. WokenOnce'
        BY <2>5, <3>2 DEF Wait, Go, Early
      <4> QED
        BY <4>1, <4>2, <4>3
    <3> QED
      BY <2>5, <3>1, <3>2 DEF Wait
  <2>6. CASE Timer(c)
    BY <2>6, MoveOn DEF Timer, Early
  <2>7. CASE Expire(c)
    <3>1. /\ pc[c] = "expired" /\ pc'[c] = "failed" /\ \A d \in Calls : d # c => pc'[d] = pc[d]
          /\ pending' = pending \ {session[c]}
          /\ UNCHANGED <<seq, session, done, waking>>
      BY <2>7 DEF Expire, Go
    <3>2. SessionsUnique'
      <4>1. pending' \subseteq 1 .. seq
        BY <3>1
      <4> QED
        BY <3>1, <4>1
    <3>3. NoSessionLeft'
      BY <3>1
    <3>4. WokenOnce'
      BY <3>1 DEF Early
    <3> QED
      BY <3>2, <3>3, <3>4
  <2>8. CASE Return(c)
    BY <2>8 DEF Return, Go, Early
  <2>9. CASE Panic(c)
    BY <2>9, MoveOn DEF Panic, Early
  <2>10. CASE RejectSend(c)
    BY <2>10, MoveOn DEF RejectSend, Early
  <2> QED
    BY <1>1, <2>1, <2>2, <2>3, <2>4, <2>5, <2>6, <2>7, <2>8, <2>9, <2>10 DEF CallService
<1>2. CASE OnRequest
  BY <1>2 DEF OnRequest
<1>3. CASE WakeUp
  <2>1. waking' # NoPacket => waking'.seq \in pending /\ waking'.seq \notin pending'
    BY <1>3 DEF WakeUp
  <2> QED
    <3>1. pending' \subseteq pending
      BY <1>3 DEF WakeUp
    <3>2. SessionsUnique'
      BY <1>3, <2>1, <3>1 DEF WakeUp
    <3>3. NoSessionLeft'
      BY <1>3, <3>1 DEF WakeUp
    <3>4. \A c \in Calls : session[c] \in pending => done[c] = NoCall /\ pc[c] \notin Early
      <4> SUFFICES ASSUME NEW c \in Calls, session[c] \in pending
                   PROVE  pc[c] \notin Early /\ done[c] = NoCall
        OBVIOUS
      <4>1. PICK d \in Calls : session[d] = session[c] /\ pc[d] \in {"waiting", "expired"}
        OBVIOUS
      <4>2. c = d
        BY <4>1
      <4> QED
        BY <4>1, <4>2 DEF Early
    <3>5. WokenOnce'
      BY <1>3, <2>1, <3>1, <3>4 DEF WakeUp
    <3> QED
      BY <3>2, <3>3, <3>5
<1>4. CASE WakeUpSend
  BY <1>4 DEF WakeUpSend
<1>5. CASE UNCHANGED vars
  BY <1>5 DEF vars
<1> QED
  BY <1>1, <1>2, <1>3, <1>4, <1>5 DEF Next, OnMessage

\* No session outlives its call in RpcFramework.pending, however timeouts and
\* replies race.
THEOREM SessionsAreFreed == Spec => []NoSessionLeft
<1>1. SInv => NoSessionLeft
  BY DEF SInv
<1> QED
  BY <1>1, SInit, SStep, PTL DEF Spec

\* RPC_WAKEUP_ERR and RPC_SESSION_REPEAT_ERR are never returned.
THEOREM ChannelsHaveRoom == Spec => []NoChannelFull
<1>1. SInv => NoChannelFull
  BY DEF SInv, NoChannelFull, WokenOnce, NoSessionLeft, SessionsUnique, TypeOK
<1> QED
  BY <1>1, SInit, SStep, PTL DEF Spec

-----------------------------------------------------------------------------
(* Replies, when no call packs while another one does.                     *)

\* A packet that carries the session of the call in its body, by the sessions f.
Mine(p, f) == p.body \in Calls /\ p.seq = f[p.body] /\ p.seq # 0

AllMine(q, f) == \A i \in 1 .. Len(q) : Mine(q[i], f)

\* The buffer belongs to the call that packs.
BufferOwned ==
    /\ \A c \in Calls : pc[c] \in {"body", "send"} => packBuffer.seq = session[c]
    /\ \A c \in Calls : pc[c] = "send" => packBuffer.body = c
    /\ \A c, d \in Calls : pc[c] \in {"body", "send"} /\ pc[d] \in {"body", "send"} => c = d

OwnReplies ==
    /\ \A c \in Calls : done[c] # NoCall => done[c] = c
    /\ waking # NoPacket => Mine(waking, session)
    /\ ReplyIsMine

MInv == BufferOwned /\ AllMine(requests, session) /\ AllMine(replies, session) /\ OwnReplies

LEMMA MInit == Init => MInv
  BY DEF Init, MInv, BufferOwned, AllMine, OwnReplies, ReplyIsMine

\* The sessions that are given out stay.
LEMMA SessionsStay ==
    ASSUME SInv, [Next]_vars PROVE \A c \in Calls : session[c] # 0 => session'[c] = session[c]
<1>1. ASSUME NEW d \in Calls, genSessID(d)
      PROVE  \A c \in Calls : session[c] # 0 => session'[c] = session[c]
  BY <1>1 DEF genSessID, Go, SInv, TypeOK, SessionsUnique
<1>2. ASSUME NEW d \in Calls, CallService(d), ~genSessID(d) PROVE session' = session
  BY <1>2 DEF CallService, RejectSend, PackHead, PackBody, SendBySvcUrl, Wait, Timer, Expire,
              Return, Panic
<1>3. CASE OnMessage \/ UNCHANGED vars
  BY <1>3 DEF OnMessage, OnRequest, WakeUp, WakeUpSend, vars
<1> QED
  BY <1>1, <1>2, <1>3 DEF Next

\* So packets stay whose they are, also when one is taken off a queue or added.
LEMMA MineQueues ==
    ASSUME NEW f, NEW g, \A c \in Calls : f[c] # 0 => g[c] = f[c],
           NEW q \in Seq(Packets), AllMine(q, f)
    PROVE  /\ AllMine(q, g)
           /\ q # << >> => Mine(Head(q), g) /\ AllMine(Tail(q), g)
           /\ \A p \in Packets : Mine(p, g) => AllMine(Append(q, p), g)
<1>1. \A i \in 1 .. Len(q) : Mine(q[i], g)
  BY DEF AllMine, Mine
<1>2. ASSUME q # << >> PROVE Mine(Head(q), g) /\ AllMine(Tail(q), g)
  <2>1. Head(q) = q[1] /\ 1 \in 1 .. Len(q)
    BY <1>2
  <2>2. \A i \in 1 .. Len(Tail(q)) : Tail(q)[i] = q[i + 1] /\ i + 1 \in 1 .. Len(q)
    BY <1>2
  <2> QED
    BY <1>1, <2>1, <2>2 DEF AllMine
<1>3. ASSUME NEW p \in Packets, Mine(p, g) PROVE AllMine(Append(q, p), g)
  <2>1. \A i \in 1 .. Len(Append(q, p)) :
          Append(q, p)[i] = p \/ (i \in 1 .. Len(q) /\ Append(q, p)[i] = q[i])
    BY AppendProperties
  <2> QED
    BY <1>1, <1>3, <2>1 DEF AllMine
<1> QED
  BY <1>1, <1>2, <1>3 DEF AllMine

LEMMA MStep == ~OverlapPacking /\ SInv /\ MInv /\ [Next]_vars => MInv'
<1> SUFFICES ASSUME ~OverlapPacking, SInv, MInv, [Next]_vars PROVE MInv'
  OBVIOUS
<1>s. \A c \in Calls : session[c] # 0 => session'[c] = session[c]
  BY SessionsStay
<1>t. TypeOK /\ TypeOK' /\ SessionsUnique
  BY TypeStep DEF SInv
<1>q. /\ AllMine(requests, session') /\ AllMine(replies, session')
      /\ requests # << >> => Mine(Head(requests), session') /\ AllMine(Tail(requests), session')
      /\ replies # << >> => Mine(Head(replies), session') /\ AllMine(Tail(replies), session')
      /\ \A p \in Packets : Mine(p, session') => /\ AllMine(Append(requests, p), session')
                                               /\ AllMine(Append(replies, p), session')
  BY MineQueues, <1>s, <1>t DEF MInv, TypeOK
<1>w. waking # NoPacket => Mine(waking, session')
  BY <1>s DEF MInv, OwnReplies, Mine
<1>1. ASSUME NEW c \in Calls, CallService(c) PROVE MInv'
  <2>q. replies' = replies /\ waking' = waking
    BY <1>1 DEF CallService, genSessID, PackHead, PackBody, SendBySvcUrl, Wait, Timer, Expire,
                Return, Panic, RejectSend
  <2>1. BufferOwned'
    <3> USE <1>t DEF MInv, BufferOwned, TypeOK
    <3>1. CASE genSessID(c)
      BY <3>1 DEF genSessID, Go
    <3>2. CASE PackHead(c)
      BY <3>2 DEF PackHead, Go, Packets
    <3>3. CASE PackBody(c)
      BY <3>3 DEF PackBody, Go, Packets
    <3>4. CASE SendBySvcUrl(c)
      BY <3>4 DEF SendBySvcUrl, Go
    <3>5. CASE Wait(c) \/ Timer(c) \/ Expire(c) \/ Return(c) \/ Panic(c) \/ RejectSend(c)
      <4>1. pc' \in [Calls -> Places] /\ packBuffer' = packBuffer /\ session' = session
        BY <3>5 DEF Wait, Timer, Expire, Return, Panic, RejectSend
      <4>2. \A d \in Calls : pc'[d] \in {"body", "send"} => pc'[d] = pc[d]
        BY <3>5 DEF Wait, Timer, Expire, Return, Panic, RejectSend, Go
      <4> QED
        BY <4>1, <4>2
    <3> QED
      BY <1>1, <3>1, <3>2, <3>3, <3>4, <3>5 DEF CallService
  <2>2. AllMine(requests', session')
    <3>1. CASE requests' = requests
      BY <1>q, <3>1
    <3>2. CASE requests' = Append(requests, packBuffer) /\ SendBySvcUrl(c)
      <4>1. pc[c] = "send" /\ session' = session
        BY <3>2 DEF SendBySvcUrl, Go
      <4>2. Mine(packBuffer, session')
        BY <4>1, <1>t DEF Mine, MInv, BufferOwned, SessionsUnique, TypeOK
      <4> QED
        BY <1>q, <1>t, <3>2, <4>2 DEF TypeOK
    <3> QED
      BY <1>1, <3>1, <3>2
         DEF CallService, genSessID, PackHead, PackBody, SendBySvcUrl, Wait, Timer, Expire,
             Return, Panic, RejectSend
  <2>3. OwnReplies'
    <3>1. CASE Return(c)
      BY <1>t, <1>w, <2>q, <3>1 DEF Return, Go, MInv, OwnReplies, ReplyIsMine, TypeOK
    <3>2. CASE done' = done /\ reply' = reply
      <4>1. \A d \in Calls : pc'[d] = "returned" => pc[d] = "returned" \/ Return(c)
        BY <1>1, <1>t DEF CallService, genSessID, PackHead, PackBody, SendBySvcUrl, Wait, Timer,
                          Expire, Panic, RejectSend, Go, TypeOK
      <4>2. CASE ~Return(c)
        BY <1>w, <2>q, <3>2, <4>1, <4>2 DEF MInv, OwnReplies, ReplyIsMine
      <4> QED
        BY <3>1, <4>2
    <3> QED
      BY <1>1, <3>1, <3>2 DEF CallService, genSessID, PackHead, PackBody, SendBySvcUrl, Wait,
                              Timer, Expire, Panic, RejectSend
  <2> QED
    BY <1>q, <2>q, <2>1, <2>2, <2>3 DEF MInv
<1>2. CASE OnRequest
  <2>1. requests # << >> /\ requests' = Tail(requests)
    BY <1>2 DEF OnRequest
  <2>2. Head(requests) \in Packets
    BY <1>t, <2>1 DEF TypeOK
  <2>3. replies' = replies \/ replies' = Append(replies, Head(requests))
    BY <1>2 DEF OnRequest
  <2>4. AllMine(requests', session') /\ AllMine(replies', session')
    BY <1>q, <2>1, <2>2, <2>3
  <2>5. BufferOwned' /\ OwnReplies'
    BY <1>2, <1>w DEF OnRequest, MInv, BufferOwned, OwnReplies, ReplyIsMine
  <2> QED
    BY <2>4, <2>5 DEF MInv
<1>3. CASE WakeUp
  <2>1. replies # << >> /\ replies' = Tail(replies) /\ requests' = requests
    BY <1>3 DEF WakeUp
  <2>2. waking' # NoPacket => waking' = Head(replies)
    BY <1>3 DEF WakeUp
  <2>3. BufferOwned' /\ OwnReplies'
    BY <1>3, <1>q, <2>1, <2>2 DEF WakeUp, MInv, BufferOwned, OwnReplies, ReplyIsMine
  <2> QED
    BY <1>q, <2>1, <2>3 DEF MInv
<1>4. CASE WakeUpSend
  <2>1. \A c \in Calls : session[c] = waking.seq => waking.body = c
    BY <1>4, <1>t DEF WakeUpSend, MInv, OwnReplies, Mine, SessionsUnique, TypeOK
  <2>2. BufferOwned' /\ OwnReplies'
    BY <1>4, <1>t, <2>1 DEF WakeUpSend, MInv, BufferOwned, OwnReplies, ReplyIsMine, TypeOK
  <2> QED
    BY <1>4, <1>q, <2>2 DEF WakeUpSend, MInv
<1>5. CASE UNCHANGED vars
  BY <1>5 DEF vars, MInv, BufferOwned, OwnReplies, ReplyIsMine
<1> QED
  BY <1>1, <1>2, <1>3, <1>4, <1>5 DEF Next, OnMessage

\* A call that returns has the reply to its own request, for any number of
\* calls, if no call packs a request while another one does.
THEOREM RepliesAreMatched == ~OverlapPacking /\ Spec => []ReplyIsMine
<1> SUFFICES ASSUME ~OverlapPacking PROVE Spec => []ReplyIsMine
  OBVIOUS
<1>1. Init => SInv /\ MInv
  BY SInit, MInit
<1>2. SInv /\ MInv /\ [Next]_vars => (SInv /\ MInv)'
  BY SStep, MStep
<1>3. SInv /\ MInv => ReplyIsMine
  BY DEF MInv, OwnReplies
<1> QED
  BY <1>1, <1>2, <1>3, PTL DEF Spec
=============================================================================
