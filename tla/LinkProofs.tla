----------------------------- MODULE LinkProofs -----------------------------
(* Proofs about ConnWriter and Link, for any number of senders and of       *)
(* sends, any lengths of messages and any way the stream is cut: the writer *)
(* is a channel, and so is the connection from Send to OnMessage.           *)
EXTENDS Link, SequenceTheorems, WellFoundedInduction, TLAPS

-----------------------------------------------------------------------------
(* The writer.                                                             *)

\* The flag is up only while the writer waits or has ended, and wbuf holds data
\* only while it is being written.
WriterConsistent ==
    /\ consumerWaiting => pc \in {"select", "done"}
    /\ pc \notin {"write", "done"} => wbuf = << >>

IInv == TypeOK /\ InOrder /\ OneWakeup /\ WakeupComes /\ WriterConsistent

LEMMA TypeStep == TypeOK /\ [Next]_vars => TypeOK'
<1> SUFFICES ASSUME TypeOK, [Next]_vars PROVE TypeOK'
  OBVIOUS
<1> USE MaxSendsType DEF TypeOK
<1>1. ASSUME NEW g \in Senders, Send(g) PROVE TypeOK'
  <2>1. sent + 1 \in 1 .. MaxSends
    BY <1>1 DEF Send
  <2>2. sent' \in 0 .. MaxSends
    BY <1>1, <2>1 DEF Send
  <2>3. wbuff' \in Seq(1 .. MaxSends)
    BY <1>1, <2>1 DEF Send
  <2>4. posting' \in SUBSET Senders /\ consumerWaiting' \in BOOLEAN
    BY <1>1 DEF Send
  <2>5. QED
    BY <1>1, <2>2, <2>3, <2>4 DEF Send
<1>2. ASSUME NEW g \in Senders, Post(g) PROVE TypeOK'
  BY <1>2 DEF Post
<1>3. CASE Close
  BY <1>3 DEF Close
<1>4. CASE Take
  BY <1>4 DEF Take
<1>5. CASE FindEmpty
  BY <1>5 DEF FindEmpty
<1>6. CASE Write
  BY <1>6 DEF Write
<1>7. CASE WriteFails
  BY <1>7 DEF WriteFails
<1>8. CASE Arm
  BY <1>8 DEF Arm
<1>9. CASE Wake
  BY <1>9 DEF Wake
<1>10. CASE Quit
  BY <1>10 DEF Quit
<1>11. CASE UNCHANGED vars
  BY <1>11 DEF vars
<1>12. QED
  BY <1>1, <1>2, <1>3, <1>4, <1>5, <1>6, <1>7, <1>8, <1>9, <1>10, <1>11 DEF Next, loopWrite

\* The handshake of Send and loopWrite.
LEMMA HandshakeStep ==
    TypeOK /\ OneWakeup /\ WakeupComes /\ WriterConsistent /\ [Next]_vars
    => (OneWakeup /\ WakeupComes /\ WriterConsistent)'
<1> SUFFICES ASSUME TypeOK, OneWakeup, WakeupComes, WriterConsistent, [Next]_vars
             PROVE  (OneWakeup /\ WakeupComes /\ WriterConsistent)'
  OBVIOUS
<1> USE DEF TypeOK, OneWakeup, WakeupComes, WriterConsistent
<1>1. ASSUME NEW g \in Senders, Send(g)
      PROVE  (OneWakeup /\ WakeupComes /\ WriterConsistent)'
  BY <1>1 DEF Send
<1>2. ASSUME NEW g \in Senders, Post(g)
      PROVE  (OneWakeup /\ WakeupComes /\ WriterConsistent)'
  BY <1>2 DEF Post
<1>3. CASE Close
  BY <1>3 DEF Close
<1>4. CASE Take
  BY <1>4 DEF Take
<1>5. CASE FindEmpty
  BY <1>5 DEF FindEmpty
<1>6. CASE Write
  BY <1>6 DEF Write
<1>7. CASE WriteFails
  BY <1>7 DEF WriteFails
<1>8. CASE Arm
  BY <1>8 DEF Arm
<1>9. CASE Wake
  BY <1>9 DEF Wake
<1>10. CASE Quit
  BY <1>10 DEF Quit
<1>11. CASE UNCHANGED vars
  BY <1>11 DEF vars
<1>12. QED
  BY <1>1, <1>2, <1>3, <1>4, <1>5, <1>6, <1>7, <1>8, <1>9, <1>10, <1>11 DEF Next, loopWrite

Numbered(s, n) == Len(s) = n /\ \A i \in 1 .. n : s[i] = i

LEMMA OrderStep == TypeOK /\ WriterConsistent /\ InOrder /\ [Next]_vars => InOrder'
<1> SUFFICES ASSUME TypeOK, WriterConsistent, InOrder, [Next]_vars PROVE InOrder'
  OBVIOUS
<1> DEFINE all == written \o wbuf \o wbuff
<1>1. all \in Seq(1 .. MaxSends) /\ sent \in Nat /\ Numbered(all, sent)
  BY MaxSendsType DEF TypeOK, InOrder, Numbered
<1>2. InOrder' <=> Numbered(all', sent')
  BY DEF InOrder, Numbered
<1>3. ASSUME all' = all, sent' = sent PROVE InOrder'
  BY <1>1, <1>2, <1>3
<1>4. ASSUME NEW g \in Senders, Send(g) PROVE InOrder'
  <2>1. all' = Append(all, sent + 1) /\ sent' = sent + 1
    <3> DEFINE a == written \o wbuf
    <3>1. a \in Seq(1 .. MaxSends) /\ wbuff \in Seq(1 .. MaxSends)
      BY DEF TypeOK
    <3>2. sent + 1 \in 1 .. MaxSends
      BY <1>1, <1>4, MaxSendsType DEF Send, TypeOK
    <3> HIDE DEF a
    <3>3. a \o Append(wbuff, sent + 1) = Append(a \o wbuff, sent + 1)
      BY <3>1, <3>2
    <3>4. all' = a \o Append(wbuff, sent + 1)
      BY <1>4 DEF Send, a
    <3>5. QED
      BY <1>4, <3>3, <3>4 DEF Send, a
  <2> HIDE DEF all
  <2>2. Numbered(Append(all, sent + 1), sent + 1)
    BY <1>1 DEF Numbered
  <2>3. QED
    BY <1>2, <2>1, <2>2
<1>5. CASE Take
  <2>1. all' = written \o wbuff \o << >> /\ all = written \o << >> \o wbuff
    BY <1>5 DEF Take, WriterConsistent
  <2>2. written \o wbuff \o << >> = written \o << >> \o wbuff
    BY DEF TypeOK
  <2>3. QED
    BY <1>3, <1>5, <2>1, <2>2 DEF Take
<1>6. CASE Write
  <2>1. all' = (written \o wbuf) \o << >> \o wbuff
    BY <1>6 DEF Write
  <2>2. (written \o wbuf) \o << >> \o wbuff = all
    BY DEF TypeOK
  <2>3. QED
    BY <1>3, <1>6, <2>1, <2>2 DEF Write
<1>7. CASE \/ \E g \in Senders : Post(g)
           \/ Close \/ FindEmpty \/ WriteFails \/ Arm \/ Wake \/ Quit \/ UNCHANGED vars
  <2>1. UNCHANGED <<sent, wbuff, wbuf, written>>
    BY <1>7 DEF Post, Close, FindEmpty, WriteFails, Arm, Wake, Quit, vars
  <2>2. QED
    BY <1>3, <2>1
<1>8. QED
  BY <1>4, <1>5, <1>6, <1>7 DEF Next, loopWrite

LEMMA InvariantIInv == Spec => []IInv
<1>1. Init => IInv
  <2> SUFFICES ASSUME Init PROVE IInv
    OBVIOUS
  <2>1. TypeOK
    <3>1. 0 \in 0 .. MaxSends
      BY MaxSendsType
    <3>2. << >> \in Seq(1 .. MaxSends)
      OBVIOUS
    <3>3. QED
      BY <3>1, <3>2, Zenon DEF Init, TypeOK
  <2>2. InOrder
    BY DEF Init, InOrder
  <2>3. OneWakeup /\ WakeupComes /\ WriterConsistent
    BY DEF Init, OneWakeup, WakeupComes, WriterConsistent
  <2>4. QED
    BY <2>1, <2>2, <2>3 DEF IInv
<1>2. IInv /\ [Next]_vars => IInv'
  BY TypeStep, HandshakeStep, OrderStep DEF IInv
<1>3. QED
  BY <1>1, <1>2, PTL DEF Spec

\* Nothing sent on a connection is lost, repeated or overtaken on its way to the
\* socket, whoever calls Send and however often.
THEOREM DataStaysInOrder == Spec => []InOrder
<1>1. IInv => InOrder
  BY DEF IInv
<1>2. QED
  BY <1>1, InvariantIInv, PTL

\* At most one wakeup is under way, so the post's default branch (conn.go:132) is
\* dead code, and a writer that waits has announced it or is about to be woken.
THEOREM WakeupProtocol == Spec => [](OneWakeup /\ WakeupComes)
<1>1. IInv => OneWakeup /\ WakeupComes
  BY DEF IInv
<1>2. QED
  BY <1>1, InvariantIInv, PTL

\* What Channel calls in, in this mapping.
Sent(n) == [k \in 1 .. n |-> k]

\* A step of Send, or of the writer that has written, is a step of the channel.
LEMMA ChannelStep ==
    IInv /\ [Next]_vars => [WriterChannel!Next]_<<Sent(sent), written>>
<1> SUFFICES ASSUME IInv, [Next]_vars PROVE [WriterChannel!Next]_<<Sent(sent), written>>
  OBVIOUS
<1>1. /\ sent \in 0 .. MaxSends /\ sent \in Nat
      /\ wbuff \in Seq(1 .. MaxSends) /\ wbuf \in Seq(1 .. MaxSends)
      /\ written \in Seq(1 .. MaxSends)
  BY MaxSendsType DEF IInv, TypeOK
<1>2. CASE \E g \in Senders : Send(g)
  <2>1. sent' = sent + 1 /\ sent + 1 \in 1 .. MaxSends /\ written' = written
    BY <1>1, <1>2, MaxSendsType DEF Send
  <2>2. Sent(sent + 1) = Append(Sent(sent), sent + 1)
    BY <1>1 DEF Sent
  <2>3. Sent(sent)' = Append(Sent(sent), sent + 1)
    BY <2>1, <2>2 DEF Sent
  <2>4. WriterChannel!Put
    BY <2>1, <2>3 DEF WriterChannel!Put, Sent
  <2>5. QED
    BY <2>4 DEF WriterChannel!Next
<1>3. CASE Write
  <2> DEFINE w == written \o wbuf
  <2>1. sent' = sent /\ written' = w
    BY <1>3 DEF Write
  <2>2. w \in Seq(1 .. MaxSends) /\ w \o wbuff = written \o wbuf \o wbuff
    BY <1>1
  <2>3. Len(w) \in Nat /\ Len(written) <= Len(w) /\ Len(written) \in Nat
    BY <1>1
  <2>4. Len(w) <= sent /\ \A i \in 1 .. Len(w) : w[i] = i
    <3> HIDE DEF w
    <3>1. Numbered(w \o wbuff, sent)
      BY <2>2 DEF IInv, InOrder, Numbered
    <3>2. /\ Len(w \o wbuff) = Len(w) + Len(wbuff) /\ Len(w) \in Nat /\ Len(wbuff) \in Nat
          /\ \A i \in 1 .. Len(w) : (w \o wbuff)[i] = w[i]
      BY <1>1, <2>2
    <3>3. Len(w) <= sent
      BY <1>1, <3>1, <3>2 DEF Numbered
    <3>4. \A i \in 1 .. Len(w) : i \in 1 .. sent
      BY <1>1, <3>2, <3>3
    <3>5. QED
      BY <3>1, <3>2, <3>3, <3>4 DEF Numbered
  <2>5. w = SubSeq(Sent(sent), 1, Len(w))
    <3> HIDE DEF w
    <3>1. Len(Sent(sent)) = sent /\ Sent(sent) \in Seq(Nat)
      BY <1>1 DEF Sent
    <3>2. \A i \in 1 .. Len(w) : SubSeq(Sent(sent), 1, Len(w))[i] = i
      BY <1>1, <2>3, <2>4 DEF Sent
    <3>3. Len(SubSeq(Sent(sent), 1, Len(w))) = Len(w) /\ SubSeq(Sent(sent), 1, Len(w)) \in Seq(Nat)
      BY <2>3, <2>4, <3>1
    <3>4. QED
      BY <2>2, <2>4, <3>2, <3>3
  <2>6. Len(w) \in Len(written) .. Len(Sent(sent))
    BY <1>1, <2>3, <2>4 DEF Sent
  <2>7. Sent(sent)' = Sent(sent)
    BY <2>1 DEF Sent
  <2> HIDE DEF w
  <2>8. WriterChannel!Get
    BY <2>1, <2>5, <2>6, <2>7 DEF WriterChannel!Get, Sent
  <2>9. QED
    BY <2>8 DEF WriterChannel!Next
<1>4. CASE \/ \E g \in Senders : Post(g)
           \/ Close \/ Take \/ FindEmpty \/ WriteFails \/ Arm \/ Wake \/ Quit \/ UNCHANGED vars
  <2>1. UNCHANGED <<sent, written>>
    BY <1>4 DEF Post, Close, Take, FindEmpty, WriteFails, Arm, Wake, Quit, vars
  <2>2. QED
    BY <2>1 DEF Sent
<1>5. QED
  BY <1>2, <1>3, <1>4 DEF Next, loopWrite

\* The writer implements a channel, for any senders and any number of sends:
\* what the socket gets is always a prefix of what was sent, and grows only.
THEOREM WriterImplementsChannel == Spec => WriterIsChannel
<1>1. Init => WriterChannel!Init
  BY DEF Init, WriterChannel!Init
<1>2. IInv /\ [Next]_vars => [WriterChannel!Next]_<<[k \in 1 .. sent |-> k], written>>
  BY ChannelStep DEF Sent
<1>3. QED
  BY <1>1, <1>2, InvariantIInv, PTL DEF Spec, WriterIsChannel, WriterChannel!Spec

-----------------------------------------------------------------------------
(* Induction over the frames of the stream.                                *)

LEMMA LeastNumber ==
    ASSUME NEW T \in SUBSET Nat, T # {} PROVE \E x \in T : \A y \in T : x <= y
<1> DEFINE R == OpToRel(<, Nat)
<1>1. IsWellFoundedOn(R, Nat)
  BY NatLessThanWellFounded, Zenon
<1>2. \A x, y \in Nat : y < x => <<y, x>> \in R
  BY Zenon DEF OpToRel
<1> HIDE DEF R
<1>3. \E x \in T : \A y \in T : ~ (<<y, x>> \in R)
  BY <1>1, WFMin
<1>4. \E x \in T : \A y \in T : ~ (y < x)
  BY <1>2, <1>3, Zenon
<1> QED
  BY <1>4

\* Induction, for a set instead of a predicate.
LEMMA Induction ==
    ASSUME NEW T, 0 \in T, \A n \in Nat : n \in T => n + 1 \in T PROVE \A n \in Nat : n \in T
<1> SUFFICES ASSUME NEW n \in Nat, n \notin T PROVE FALSE
  OBVIOUS
<1>1. PICK x \in Nat \ T : \A y \in Nat \ T : x <= y
  BY LeastNumber
<1>2. x - 1 \in Nat /\ x - 1 \in T
  BY <1>1
<1>3. (x - 1) + 1 \in T /\ (x - 1) + 1 = x
  BY <1>2
<1> QED
  BY <1>3

\* g is the stream up to frame k.
StreamTo(g, k) == g = [n \in 0 .. k |-> IF n = 0 THEN << >> ELSE g[n - 1] \o Frame(n)]

LEMMA StreamToValues ==
    ASSUME NEW g, NEW k \in Nat, StreamTo(g, k), NEW n \in 0 .. k
    PROVE  g[n] = IF n = 0 THEN << >> ELSE g[n - 1] \o Frame(n)
BY DEF StreamTo

LEMMA StreamToExists == \A k \in Nat : \E g : StreamTo(g, k)
<1> DEFINE T == {k \in Nat : \E g : StreamTo(g, k)}
<1>1. 0 \in T
  <2> DEFINE h == [n \in 0 .. 0 |-> << >>]
  <2>1. StreamTo(h, 0)
    BY DEF StreamTo
  <2> QED
    BY <2>1
<1>2. ASSUME NEW k \in Nat, k \in T PROVE k + 1 \in T
  <2>1. PICK g : StreamTo(g, k)
    BY <1>2
  <2> DEFINE h == [n \in 0 .. k + 1 |-> IF n = k + 1 THEN g[k] \o Frame(k + 1) ELSE g[n]]
  <2>2. ASSUME NEW n \in 0 .. k + 1
        PROVE  h[n] = IF n = 0 THEN << >> ELSE h[n - 1] \o Frame(n)
    <3>1. CASE n = k + 1
      <4>1. k \in 0 .. k + 1 /\ k # k + 1 /\ n - 1 = k /\ n # 0
        BY <3>1
      <4> QED
        BY <3>1, <4>1
    <3>2. CASE n \in 0 .. k
      BY <2>1, <3>2, StreamToValues
    <3> QED
      BY <3>1, <3>2
  <2>3. h = [n \in 0 .. k + 1 |-> h[n]]
    OBVIOUS
  <2> HIDE DEF h
  <2>4. StreamTo(h, k + 1)
    BY <2>2, <2>3, Zenon DEF StreamTo
  <2> QED
    BY <2>4
<1> HIDE DEF T
<1>3. \A k \in Nat : k \in T
  BY <1>1, <1>2, Induction
<1> QED
  BY <1>3 DEF T

LEMMA StreamToUnique ==
    ASSUME NEW g, NEW h, NEW k \in Nat, NEW m \in Nat, k <= m, StreamTo(g, k), StreamTo(h, m)
    PROVE  \A n \in 0 .. k : g[n] = h[n]
<1> DEFINE T == {n \in Nat : n \in 0 .. k => g[n] = h[n]}
<1>1. 0 \in T
  BY StreamToValues
<1>2. ASSUME NEW n \in Nat, n \in T PROVE n + 1 \in T
  <2> SUFFICES ASSUME n + 1 \in 0 .. k PROVE g[n + 1] = h[n + 1]
    OBVIOUS
  <2>1. n + 1 \in 0 .. m /\ n + 1 # 0 /\ (n + 1) - 1 = n /\ n \in 0 .. k
    OBVIOUS
  <2>2. g[n] = h[n]
    BY <1>2, <2>1
  <2>3. g[n + 1] = g[n] \o Frame(n + 1) /\ h[n + 1] = h[n] \o Frame(n + 1)
    BY <2>1, StreamToValues
  <2> QED
    BY <2>2, <2>3
<1> HIDE DEF T
<1>3. \A n \in Nat : n \in T
  BY <1>1, <1>2, Induction
<1> QED
  BY <1>3 DEF T

\* The definition of Stream has a solution.
LEMMA StreamDef ==
    \A n \in Nat : Stream[n] = IF n = 0 THEN << >> ELSE Stream[n - 1] \o Frame(n)
<1> DEFINE G(k) == CHOOSE g : StreamTo(g, k)
           f == [n \in Nat |-> G(n)[n]]
<1>1. \A k \in Nat : StreamTo(G(k), k)
  BY StreamToExists, Zenon
<1> HIDE DEF G
<1>2. ASSUME NEW n \in Nat PROVE f[n] = IF n = 0 THEN << >> ELSE f[n - 1] \o Frame(n)
  <2>1. f[n] = IF n = 0 THEN << >> ELSE G(n)[n - 1] \o Frame(n)
    BY <1>1, StreamToValues
  <2>2. CASE n = 0
    BY <2>1, <2>2
  <2>3. CASE n # 0
    <3>1. n - 1 \in Nat /\ n - 1 <= n /\ n - 1 \in 0 .. n - 1
      BY <2>3
    <3>2. G(n - 1)[n - 1] = G(n)[n - 1]
      BY <1>1, <3>1, StreamToUnique
    <3> QED
      BY <2>1, <2>3, <3>1, <3>2
  <2> QED
    BY <2>2, <2>3
<1>3. f = [n \in Nat |-> f[n]]
  OBVIOUS
<1> HIDE DEF f
<1>4. f = [n \in Nat |-> IF n = 0 THEN << >> ELSE f[n - 1] \o Frame(n)]
  BY <1>2, <1>3, Zenon
<1>5. Stream = [n \in Nat |-> IF n = 0 THEN << >> ELSE Stream[n - 1] \o Frame(n)]
  BY <1>4, Zenon DEF Stream
<1> QED
  BY <1>5

Cells == Nat \X Nat

LEMMA Joined ==
    ASSUME NEW a \in Seq(Cells), NEW b \in Seq(Cells)
    PROVE  /\ a \o b \in Seq(Cells) /\ Len(a \o b) = Len(a) + Len(b)
           /\ Len(a) \in Nat /\ Len(b) \in Nat
           /\ \A i \in 1 .. Len(a) : (a \o b)[i] = a[i]
           /\ \A i \in 1 .. Len(b) : (a \o b)[Len(a) + i] = b[i]
<1> HIDE DEF Cells
<1> QED
  OBVIOUS

\* Frame k is PkgHeadLen + Body[k] cells long.
LEMMA FrameType ==
    ASSUME NEW k \in 1 .. MaxSends
    PROVE  /\ Frame(k) \in Seq(Cells)
           /\ Body[k] \in Nat /\ Len(Frame(k)) = PkgHeadLen + Body[k]
           /\ \A i \in 1 .. PkgHeadLen + Body[k] : Frame(k)[i] = <<k, i>>
<1>1. k \in Nat /\ PkgHeadLen \in Nat /\ Body[k] \in Nat
  BY MaxSendsType, FrameLengths
<1> DEFINE n == PkgHeadLen + Body[k]
<1>2. n \in Nat
  BY <1>1
<1>3. Frame(k) = [i \in 1 .. n |-> <<k, i>>]
  BY DEF Frame
<1> HIDE DEF n
<1>4. \A i \in 1 .. n : <<k, i>> \in Cells
  BY <1>1, <1>2 DEF Cells
<1>5. Frame(k) \in Seq(Cells) /\ Len(Frame(k)) = n
  BY <1>2, <1>3, <1>4
<1> QED
  BY <1>1, <1>3, <1>5 DEF n

LEMMA StreamNext ==
    ASSUME NEW n \in Nat, n + 1 <= MaxSends, Stream[n] \in Seq(Cells)
    PROVE  /\ Stream[n + 1] = Stream[n] \o Frame(n + 1)
           /\ Stream[n + 1] \in Seq(Cells)
           /\ Len(Stream[n + 1]) = Len(Stream[n]) + Len(Frame(n + 1))
           /\ Len(Stream[n]) \in Nat /\ Len(Frame(n + 1)) \in Nat
           /\ \A i \in 1 .. Len(Stream[n]) : Stream[n + 1][i] = Stream[n][i]
           /\ \A i \in 1 .. Len(Frame(n + 1)) : Stream[n + 1][Len(Stream[n]) + i] = Frame(n + 1)[i]
<1>1. n + 1 \in Nat /\ n + 1 # 0 /\ (n + 1) - 1 = n /\ n + 1 \in 1 .. MaxSends
  BY MaxSendsType
<1>2. Stream[n + 1] = Stream[n] \o Frame(n + 1)
  BY <1>1, StreamDef
<1>3. Frame(n + 1) \in Seq(Cells)
  BY <1>1, FrameType
<1> DEFINE a == Stream[n]
           b == Frame(n + 1)
<1>4. a \in Seq(Cells) /\ b \in Seq(Cells) /\ Stream[n + 1] = a \o b
  BY <1>2, <1>3
<1> HIDE DEF a, b
<1>5. /\ a \o b \in Seq(Cells) /\ Len(a \o b) = Len(a) + Len(b)
      /\ Len(a) \in Nat /\ Len(b) \in Nat
      /\ \A i \in 1 .. Len(a) : (a \o b)[i] = a[i]
      /\ \A i \in 1 .. Len(b) : (a \o b)[Len(a) + i] = b[i]
  BY <1>4, Joined
<1>6. /\ Stream[n + 1] \in Seq(Cells) /\ Len(Stream[n + 1]) = Len(a) + Len(b)
      /\ \A i \in 1 .. Len(a) : Stream[n + 1][i] = a[i]
      /\ \A i \in 1 .. Len(b) : Stream[n + 1][Len(a) + i] = b[i]
  BY <1>4, <1>5
<1> QED
  BY <1>2, <1>5, <1>6 DEF a, b

LEMMA StreamType == \A n \in 0 .. MaxSends : Stream[n] \in Seq(Cells)
<1> DEFINE T == {n \in Nat : n <= MaxSends => Stream[n] \in Seq(Cells)}
<1>1. 0 \in T
  <2>1. Stream[0] = << >>
    BY StreamDef
  <2>2. Stream[0] \in Seq(Cells)
    BY <2>1, EmptySeq
  <2> QED
    BY <2>2
<1>2. ASSUME NEW n \in Nat, n \in T PROVE n + 1 \in T
  <2> SUFFICES ASSUME n + 1 <= MaxSends PROVE Stream[n + 1] \in Seq(Cells)
    OBVIOUS
  <2>1. Stream[n] \in Seq(Cells)
    BY <1>2, MaxSendsType
  <2> QED
    BY <2>1, StreamNext
<1> HIDE DEF T
<1>3. \A n \in Nat : n \in T
  BY <1>1, <1>2, Induction
<1> QED
  BY <1>3, MaxSendsType DEF T

\* A shorter stream is a prefix of a longer one.
LEMMA StreamGrows ==
    ASSUME NEW m \in 0 .. MaxSends, NEW n \in 0 .. m
    PROVE  /\ Len(Stream[n]) <= Len(Stream[m])
           /\ \A i \in 1 .. Len(Stream[n]) : Stream[m][i] = Stream[n][i]
<1> DEFINE P(k) == /\ Len(Stream[n]) <= Len(Stream[k])
                   /\ \A i \in 1 .. Len(Stream[n]) : Stream[k][i] = Stream[n][i]
           T == {k \in Nat : k \in n .. MaxSends => P(k)}
<1>0. n \in Nat /\ n \in 0 .. MaxSends /\ Stream[n] \in Seq(Cells) /\ Len(Stream[n]) \in Nat
  BY MaxSendsType, StreamType, LenProperties
<1>1. 0 \in T
  <2>1. 0 \in n .. MaxSends => n = 0
    BY <1>0
  <2> QED
    BY <1>0, <2>1
<1>2. ASSUME NEW k \in Nat, k \in T PROVE k + 1 \in T
  <2> SUFFICES ASSUME k + 1 \in n .. MaxSends PROVE P(k + 1)
    OBVIOUS
  <2>1. CASE k + 1 = n
    BY <1>0, <2>1
  <2>2. CASE k \in n .. MaxSends
    <3>1. k + 1 \in 1 .. MaxSends /\ k + 1 <= MaxSends /\ k \in 0 .. MaxSends
      BY <1>0, <2>2, MaxSendsType
    <3>2. P(k)
      BY <1>2, <2>2
    <3>3. Stream[k] \in Seq(Cells)
      BY <3>1, StreamType
    <3>5. /\ Len(Stream[k + 1]) = Len(Stream[k]) + Len(Frame(k + 1))
          /\ Len(Stream[k]) \in Nat /\ Len(Frame(k + 1)) \in Nat
          /\ \A i \in 1 .. Len(Stream[k]) : Stream[k + 1][i] = Stream[k][i]
      BY <3>1, <3>3, StreamNext
    <3>6. \A i \in 1 .. Len(Stream[n]) : i \in 1 .. Len(Stream[k])
      BY <1>0, <3>2, <3>5
    <3>7. \A i \in 1 .. Len(Stream[n]) : Stream[k + 1][i] = Stream[n][i]
      BY <3>2, <3>5, <3>6
    <3>8. Len(Stream[n]) <= Len(Stream[k + 1])
      <4>1. Len(Stream[n]) <= Len(Stream[k])
        BY <3>2
      <4>2. \A x, y, z \in Nat : x <= y => x <= y + z
        OBVIOUS
      <4> QED
        BY <1>0, <3>5, <4>1, <4>2, Zenon
    <3> QED
      BY <3>7, <3>8
  <2>3. k + 1 = n \/ k \in n .. MaxSends
    BY <1>0, MaxSendsType
  <2> QED
    BY <2>1, <2>2, <2>3
<1> HIDE DEF T
<1>3. \A k \in Nat : k \in T
  BY <1>1, <1>2, Induction
<1> QED
  BY <1>3, MaxSendsType DEF T

-----------------------------------------------------------------------------
(* The reader.                                                             *)

\* What OnMessage was given are the first frames, and rbuff is the part of the
\* stream that was read behind them: it begins where a frame begins.
LinkInv ==
    LET all == Stream[Len(written)]
        taken == Len(Stream[Len(delivered)])
    IN
    /\ Len(delivered) \in 0 .. Len(written)
    /\ delivered = [k \in 1 .. Len(delivered) |-> Frame(k)]
    /\ rbuff \in Seq(Cells)
    /\ read = taken + Len(rbuff)
    /\ read <= Len(all)
    /\ \A i \in 1 .. Len(rbuff) : rbuff[i] = all[taken + i]

\* No more is written than was sent.
LEMMA WrittenBounds ==
    ASSUME IInv
    PROVE  /\ sent \in 0 .. MaxSends
           /\ Len(written) \in 0 .. sent /\ Len(written) \in 0 .. MaxSends
           /\ Len(written \o wbuf) \in Len(written) .. MaxSends
<1>1. /\ written \in Seq(1 .. MaxSends) /\ wbuf \in Seq(1 .. MaxSends)
      /\ wbuff \in Seq(1 .. MaxSends) /\ sent \in 0 .. MaxSends
  BY DEF IInv, TypeOK
<1>2. Len(written \o wbuf \o wbuff) = sent
  BY DEF IInv, InOrder
<1>3. Len(written \o wbuf \o wbuff) = Len(written) + Len(wbuf) + Len(wbuff)
  BY <1>1, ConcatProperties
<1>4. Len(written) \in Nat /\ Len(wbuf) \in Nat /\ Len(wbuff) \in Nat
  BY <1>1
<1>5. Len(written \o wbuf) = Len(written) + Len(wbuf)
  BY <1>1, ConcatProperties
<1> QED
  BY <1>1, <1>2, <1>3, <1>4, <1>5, MaxSendsType

LEMMA LinkWriter ==
    ASSUME IInv, LinkInv, [Next]_vars, UNCHANGED linkVars PROVE LinkInv'
<1>1. written' \in {written, written \o wbuf}
  BY DEF Next, loopWrite, Send, Post, Close, Take, FindEmpty, Write, WriteFails, Arm, Wake,
         Quit, vars
<1>2. /\ Len(written) \in 0 .. MaxSends /\ Len(written') \in 0 .. MaxSends
      /\ Len(written) <= Len(written')
  BY <1>1, WrittenBounds, MaxSendsType
<1> DEFINE all == Stream[Len(written)]
           more == Stream[Len(written')]
           taken == Len(Stream[Len(delivered)])
<1>3. Len(all) <= Len(more) /\ \A i \in 1 .. Len(all) : more[i] = all[i]
  BY <1>2, StreamGrows, MaxSendsType
<1>4. all \in Seq(Cells) /\ more \in Seq(Cells) /\ Len(all) \in Nat /\ Len(more) \in Nat
  BY <1>2, StreamType, LenProperties
<1>5. Len(delivered) \in 0 .. MaxSends /\ taken \in Nat /\ Len(rbuff) \in Nat
  BY <1>2, StreamType, LenProperties, MaxSendsType DEF LinkInv
<1>6. read = taken + Len(rbuff) /\ read <= Len(all)
  BY DEF LinkInv
<1>7. ASSUME NEW i \in 1 .. Len(rbuff) PROVE rbuff[i] = more[taken + i]
  <2>1. taken + i \in 1 .. Len(all)
    BY <1>4, <1>5, <1>6
  <2> QED
    BY <1>3, <2>1 DEF LinkInv
<1>8. Len(delivered) \in 0 .. Len(written') /\ read <= Len(more)
  <2>1. Len(delivered) \in 0 .. Len(written)
    BY DEF LinkInv
  <2>2. Len(delivered) \in 0 .. Len(written')
    BY <1>2, <2>1, MaxSendsType
  <2> HIDE DEF all, more, taken
  <2>3. read <= Len(more)
    BY <1>3, <1>4, <1>5, <1>6
  <2> QED
    BY <2>2, <2>3
<1>9. UNCHANGED <<read, rbuff, delivered>>
  BY DEF linkVars
<1> QED
  BY <1>6, <1>7, <1>8, <1>9 DEF LinkInv

\* A Read appends the next cells of the stream.
LEMMA Part ==
    ASSUME NEW S, NEW a \in Seq(S), NEW r \in Nat, NEW n \in Nat, 1 <= n, r + n <= Len(a)
    PROVE  /\ SubSeq(a, r + 1, r + n) \in Seq(S)
           /\ Len(SubSeq(a, r + 1, r + n)) = n
           /\ \A i \in 1 .. n : SubSeq(a, r + 1, r + n)[i] = a[r + i]
OBVIOUS

LEMMA LinkRead == ASSUME IInv, LinkInv, NEW n \in Nat, Read(n) PROVE LinkInv'
<1> DEFINE all == Stream[Len(written)]
           taken == Len(Stream[Len(delivered)])
           x == SubSeq(all, read + 1, read + n)
<1>1. UNCHANGED <<written, delivered>>
  BY DEF Read, vars
<1>2. Len(written) \in 0 .. MaxSends /\ all \in Seq(Cells) /\ Len(all) \in Nat
  BY WrittenBounds, StreamType, LenProperties
<1>3. Len(delivered) \in 0 .. MaxSends /\ taken \in Nat
  BY <1>2, StreamType, LenProperties, MaxSendsType DEF LinkInv
<1>4. rbuff \in Seq(Cells) /\ Len(rbuff) \in Nat /\ read = taken + Len(rbuff) /\ read \in Nat
  BY <1>3, LenProperties DEF LinkInv
<1>5. rbuff' = rbuff \o x /\ read' = read + n /\ n \in 1 .. Len(all) - read
  BY DEF Read
<1>6. /\ x \in Seq(Cells) /\ Len(x) = n
      /\ \A i \in 1 .. n : x[i] = all[read + i]
  <2> HIDE DEF all
  <2>1. 1 <= n /\ read + n <= Len(all) /\ read \in Nat
    BY <1>2, <1>4, <1>5
  <2> QED
    BY <1>2, <2>1, Part
<1> HIDE DEF x, all, taken
<1>7. /\ rbuff' \in Seq(Cells) /\ Len(rbuff') = Len(rbuff) + n
      /\ \A i \in 1 .. Len(rbuff) : rbuff'[i] = rbuff[i]
      /\ \A i \in 1 .. n : rbuff'[Len(rbuff) + i] = x[i]
  <2>1. /\ rbuff \o x \in Seq(Cells) /\ Len(rbuff \o x) = Len(rbuff) + n
        /\ \A i \in 1 .. Len(rbuff) : (rbuff \o x)[i] = rbuff[i]
        /\ \A i \in 1 .. n : (rbuff \o x)[Len(rbuff) + i] = x[i]
    BY <1>4, <1>6, Joined
  <2> QED
    BY <1>4, <1>5, <2>1
<1>8. ASSUME NEW i \in 1 .. Len(rbuff') PROVE rbuff'[i] = all[taken + i]
  <2>1. CASE i \in 1 .. Len(rbuff)
    BY <1>7, <2>1 DEF LinkInv, all, taken
  <2>2. CASE i \in Len(rbuff) + 1 .. Len(rbuff) + n
    <3> DEFINE j == i - Len(rbuff)
    <3>1. j \in 1 .. n /\ read + j = taken + i /\ Len(rbuff) + j = i
      BY <1>3, <1>4, <1>5, <2>2
    <3>2. rbuff'[i] = x[j] /\ x[j] = all[read + j]
      BY <1>6, <1>7, <3>1
    <3> QED
      BY <3>1, <3>2
  <2> QED
    BY <1>4, <1>5, <1>7, <2>1, <2>2
<1>9. read' = taken + Len(rbuff') /\ read' <= Len(all)
  BY <1>2, <1>3, <1>4, <1>5, <1>7
<1> QED
  BY <1>1, <1>7, <1>8, <1>9 DEF LinkInv, all, taken

\* What rbuff begins with: the cells of the next frame, as far as they are there.
LEMMA NextFrame ==
    ASSUME IInv, LinkInv, rbuff # << >>
    PROVE  LET d == Len(delivered) + 1 IN
           /\ d \in 1 .. Len(written) /\ d \in 1 .. MaxSends
           /\ \A i \in 1 .. Len(rbuff) : i <= PkgHeadLen + Body[d] => rbuff[i] = <<d, i>>
           /\ Len(Stream[d]) = Len(Stream[Len(delivered)]) + PkgHeadLen + Body[d]
<1> DEFINE d == Len(delivered) + 1
           all == Stream[Len(written)]
           before == Stream[Len(delivered)]
           taken == Len(before)
<1>1. Len(written) \in 0 .. MaxSends /\ all \in Seq(Cells) /\ Len(all) \in Nat
  BY WrittenBounds, StreamType, LenProperties
<1>2. Len(delivered) \in 0 .. MaxSends /\ before \in Seq(Cells) /\ taken \in Nat
  BY <1>1, StreamType, LenProperties, MaxSendsType DEF LinkInv
<1>3. Len(rbuff) \in Nat /\ Len(rbuff) # 0 /\ taken + Len(rbuff) <= Len(all)
  BY EmptySeq, LenProperties DEF LinkInv
<1>4. Len(delivered) # Len(written)
  <2> SUFFICES ASSUME Len(delivered) = Len(written) PROVE FALSE
    OBVIOUS
  <2>1. taken = Len(all)
    OBVIOUS
  <2> QED
    BY <1>1, <1>2, <1>3, <2>1
<1>5. d \in 1 .. Len(written) /\ d \in 1 .. MaxSends /\ Len(delivered) \in Nat
  BY <1>1, <1>2, <1>4, MaxSendsType DEF LinkInv
<1>6. /\ Frame(d) \in Seq(Cells) /\ Body[d] \in Nat
      /\ Len(Frame(d)) = PkgHeadLen + Body[d] /\ Len(Frame(d)) \in Nat
      /\ \A i \in 1 .. PkgHeadLen + Body[d] : Frame(d)[i] = <<d, i>>
  BY <1>5, FrameType, LenProperties
<1>7. Len(delivered) + 1 <= MaxSends
  BY <1>5, MaxSendsType
<1>8. /\ Len(Stream[d]) = taken + Len(Frame(d))
      /\ \A i \in 1 .. Len(Frame(d)) : Stream[d][taken + i] = Frame(d)[i]
  BY <1>2, <1>5, <1>7, StreamNext
<1>9. Len(Stream[d]) <= Len(all) /\ \A i \in 1 .. Len(Stream[d]) : all[i] = Stream[d][i]
  BY <1>1, <1>5, StreamGrows, MaxSendsType
<1> HIDE DEF taken
<1>10. ASSUME NEW i \in 1 .. Len(rbuff), i <= PkgHeadLen + Body[d] PROVE rbuff[i] = <<d, i>>
  <2>1. i \in 1 .. PkgHeadLen + Body[d] /\ i \in Nat
    BY <1>3, <1>6, <1>10, FrameLengths
  <2>2. i \in 1 .. Len(Frame(d)) /\ taken + i \in 1 .. Len(Stream[d])
    <3>1. i \in 1 .. Len(Frame(d))
      BY <1>6, <2>1
    <3>2. taken + i \in 1 .. taken + Len(Frame(d))
      BY <1>2, <1>6, <3>1
    <3> QED
      BY <1>8, <3>1, <3>2
  <2>3. rbuff[i] = all[taken + i]
    BY DEF LinkInv, taken
  <2>4. all[taken + i] = Stream[d][taken + i]
    BY <1>9, <2>2
  <2>5. Stream[d][taken + i] = Frame(d)[i]
    BY <1>8, <2>2
  <2> QED
    BY <1>6, <2>1, <2>3, <2>4, <2>5
<1>11. Len(Stream[d]) = taken + PkgHeadLen + Body[d]
  <2>1. Len(Stream[d]) = taken + (PkgHeadLen + Body[d]) /\ PkgHeadLen \in Nat
    BY <1>6, <1>8, FrameLengths
  <2> QED
    BY <1>2, <1>6, <2>1
<1> QED
  BY <1>5, <1>10, <1>11 DEF taken

\* Unpack finds the next frame once it is all there, and nothing before.
LEMMA UnpackFindsFrame ==
    ASSUME IInv, LinkInv
    PROVE  LET d == Len(delivered) + 1
               n == Unpack(rbuff)
           IN
           n # 0 => /\ rbuff # << >>
                    /\ n = PkgHeadLen + Body[d] /\ n \in 1 .. Len(rbuff)
                    /\ SubSeq(rbuff, 1, n) = Frame(d)
<1> DEFINE d == Len(delivered) + 1
           n == Unpack(rbuff)
<1> SUFFICES ASSUME n # 0
             PROVE  /\ rbuff # << >>
                    /\ n = PkgHeadLen + Body[d] /\ n \in 1 .. Len(rbuff)
                    /\ SubSeq(rbuff, 1, n) = Frame(d)
  OBVIOUS
<1>1. rbuff \in Seq(Cells) /\ Len(rbuff) \in Nat /\ PkgHeadLen \in Nat /\ PkgHeadLen # 0
  BY FrameLengths, LenProperties DEF LinkInv
<1>2. Len(rbuff) >= PkgHeadLen /\ n = PkgHeadLen + HeadValue(rbuff)
  BY <1>1 DEF Unpack
<1>3. rbuff # << >>
  BY <1>1, <1>2
<1>4. /\ d \in 1 .. Len(written) /\ d \in 1 .. MaxSends
      /\ \A i \in 1 .. Len(rbuff) : i <= PkgHeadLen + Body[d] => rbuff[i] = <<d, i>>
  BY <1>3, NextFrame
<1>5. Body[d] \in Nat
  BY <1>4, FrameLengths
<1>6. \A i \in 1 .. PkgHeadLen : rbuff[i] = <<d, i>>
  BY <1>1, <1>2, <1>4, <1>5
<1>7. rbuff[1][1] = d
  BY <1>1, <1>6
<1>8. HeadValue(rbuff) = Body[d]
  BY <1>6, <1>7 DEF HeadValue
<1>9. n = PkgHeadLen + Body[d] /\ n \in Nat /\ n <= Len(rbuff) /\ n \in 1 .. Len(rbuff)
  BY <1>1, <1>2, <1>5, <1>8 DEF Unpack
<1> HIDE DEF n
<1>10. /\ SubSeq(rbuff, 1, n) \in Seq(Cells) /\ Len(SubSeq(rbuff, 1, n)) = n
       /\ \A i \in 1 .. n : SubSeq(rbuff, 1, n)[i] = rbuff[i]
  BY <1>1, <1>9
<1>11. /\ Frame(d) \in Seq(Cells) /\ Len(Frame(d)) = n
       /\ \A i \in 1 .. n : Frame(d)[i] = <<d, i>>
  BY <1>4, <1>9, FrameType
<1>12. ASSUME NEW i \in 1 .. n PROVE SubSeq(rbuff, 1, n)[i] = Frame(d)[i]
  <2>1. i \in 1 .. Len(rbuff) /\ i <= PkgHeadLen + Body[d]
    BY <1>1, <1>9
  <2> QED
    BY <1>4, <1>10, <1>11, <2>1
<1>13. SubSeq(rbuff, 1, n) = Frame(d)
  BY <1>10, <1>11, <1>12, SeqEqual
<1> QED
  BY <1>3, <1>9, <1>13

\* OnMessage takes the next frame off rbuff, if it is all there.
LEMMA LinkMessage == ASSUME IInv, LinkInv, OnMessage PROVE LinkInv'
<1> DEFINE d == Len(delivered) + 1
           n == Unpack(rbuff)
           all == Stream[Len(written)]
           taken == Len(Stream[Len(delivered)])
           later == Len(Stream[d])
<1>1. UNCHANGED <<written, read>>
  BY DEF OnMessage, vars
<1>2. CASE n = 0
  <2>1. UNCHANGED <<rbuff, delivered>>
    BY <1>2 DEF OnMessage
  <2> QED
    BY <1>1, <2>1 DEF LinkInv
<1>3. CASE n # 0
  <2>1. /\ n = PkgHeadLen + Body[d] /\ n \in 1 .. Len(rbuff)
        /\ SubSeq(rbuff, 1, n) = Frame(d) /\ rbuff # << >>
    BY <1>3, UnpackFindsFrame
  <2>2. d \in 1 .. Len(written) /\ d \in 1 .. MaxSends /\ later = taken + PkgHeadLen + Body[d]
    BY <2>1, NextFrame
  <2>3. rbuff \in Seq(Cells) /\ Len(rbuff) \in Nat /\ Body[d] \in Nat /\ PkgHeadLen \in Nat
    BY <2>2, FrameLengths, LenProperties DEF LinkInv
  <2>4. /\ Len(written) \in 0 .. MaxSends /\ Len(delivered) \in 0 .. MaxSends
        /\ Len(delivered) \in Nat
    BY WrittenBounds, MaxSendsType DEF LinkInv
  <2>5. taken \in Nat
    BY <2>4, StreamType, LenProperties
  <2> HIDE DEF n, d, later, taken
  <2>6. n > 0 /\ n \in Nat /\ later = taken + n
    <3>1. n \in 1 .. Len(rbuff) /\ n = PkgHeadLen + Body[d]
      BY <2>1
    <3>2. n > 0 /\ n \in Nat
      BY <2>3, <3>1
    <3>3. taken + PkgHeadLen + Body[d] = taken + (PkgHeadLen + Body[d])
      BY <2>3, <2>5
    <3> QED
      BY <2>2, <3>1, <3>2, <3>3
  <2>7. rbuff' = SubSeq(rbuff, n + 1, Len(rbuff)) /\ delivered' = Append(delivered, Frame(d))
    BY <2>1, <2>6 DEF OnMessage, n
  <2>8. /\ rbuff' \in Seq(Cells) /\ Len(rbuff') = Len(rbuff) - n
        /\ \A i \in 1 .. Len(rbuff) - n : rbuff'[i] = rbuff[n + i]
    <3> HIDE DEF Cells
    <3>1. n + 1 \in 1 .. Len(rbuff) + 1 /\ Len(rbuff) \in n .. Len(rbuff)
      BY <2>1, <2>3, <2>6
    <3>2. rbuff' \in Seq(Cells)
      BY <2>3, <2>7, <3>1
    <3>3. Len(rbuff') = Len(rbuff) - n
      BY <2>3, <2>6, <2>7, <3>1
    <3>4. \A i \in 1 .. Len(rbuff) - n : rbuff'[i] = rbuff[n + i]
      BY <2>3, <2>6, <2>7, <3>1
    <3> QED
      BY <3>2, <3>3, <3>4
  <2>9. delivered = [k \in 1 .. Len(delivered) |-> Frame(k)]
    BY DEF LinkInv
  <2>10. delivered' = [k \in 1 .. d |-> Frame(k)] /\ Len(delivered') = d
    <3> DEFINE f == [k \in 1 .. Len(delivered) |-> Frame(k)]
               V == {Frame(k) : k \in 1 .. d}
    <3>1. delivered \in Seq(V)
      <4>1. f \in Seq(V)
        BY <2>4 DEF d
      <4> QED
        BY <2>9, <4>1
    <3>2. Frame(d) \in V
      BY <2>2
    <3>3. /\ delivered' \in Seq(V) /\ Len(delivered') = d /\ delivered'[d] = Frame(d)
          /\ \A k \in 1 .. Len(delivered) : delivered'[k] = delivered[k]
      BY <2>7, <3>1, <3>2, AppendProperties DEF d
    <3>4. \A k \in 1 .. d : delivered'[k] = Frame(k)
      BY <2>4, <2>9, <3>3 DEF d
    <3>5. delivered' = [k \in 1 .. d |-> delivered'[k]]
      BY <3>3, LenProperties
    <3> QED
      BY <3>3, <3>4, <3>5
  <2>11. read = taken + Len(rbuff) /\ read <= Len(all)
    BY DEF LinkInv, taken
  <2>12. ASSUME NEW i \in 1 .. Len(rbuff') PROVE rbuff'[i] = all[later + i]
    <3>1. n + i \in 1 .. Len(rbuff) /\ later + i = taken + (n + i)
      BY <2>3, <2>5, <2>6, <2>8
    <3>2. rbuff[n + i] = all[taken + (n + i)]
      BY <3>1 DEF LinkInv, taken
    <3> QED
      BY <2>8, <3>1, <3>2
  <2>13. read = later + Len(rbuff')
    BY <2>3, <2>5, <2>6, <2>8, <2>11
  <2>14. Stream[Len(written)]' = all /\ Len(Stream[Len(delivered)])' = later
    BY <1>1, <2>10 DEF later
  <2>15. /\ Len(delivered)' \in 0 .. Len(written)'
         /\ delivered' = [k \in 1 .. Len(delivered') |-> Frame(k)]
    BY <1>1, <2>2, <2>10
  <2> QED
    BY <1>1, <2>8, <2>11, <2>12, <2>13, <2>14, <2>15 DEF LinkInv
<1> QED
  BY <1>2, <1>3

\* A step of the link is one of the writer, or leaves it alone.
LEMMA LinkIsWriter == [LinkNext]_<<vars, linkVars>> => [Next]_vars
BY DEF LinkNext, loopRead, Read, OnMessage, ReadFails

LEMMA LinkStep ==
    ASSUME IInv, LinkInv, [LinkNext]_<<vars, linkVars>> PROVE LinkInv'
<1>1. CASE [Next]_vars /\ UNCHANGED linkVars
  BY <1>1, LinkWriter
<1>2. ASSUME NEW n \in 1 .. Len(Stream[Len(written)]) - read, Read(n) PROVE LinkInv'
  <2>1. n \in Nat
    OBVIOUS
  <2> QED
    BY <1>2, <2>1, LinkRead
<1>3. CASE OnMessage
  BY <1>3, LinkMessage
<1>4. CASE ReadFails
  <2>1. UNCHANGED <<written, read, rbuff, delivered>>
    BY <1>4 DEF ReadFails, vars
  <2> QED
    BY <2>1 DEF LinkInv
<1> QED
  BY <1>1, <1>2, <1>3, <1>4 DEF LinkNext, loopRead

LEMMA InvariantLinkInv == LinkSpec => [](IInv /\ LinkInv)
<1>1. LinkInit => LinkInv
  <2> SUFFICES ASSUME LinkInit PROVE LinkInv
    OBVIOUS
  <2>1. /\ read = 0 /\ rbuff = << >> /\ delivered = << >> /\ written = << >>
        /\ Stream[0] = << >>
    BY StreamDef DEF LinkInit, Init
  <2>2. Len(<< >>) = 0
    OBVIOUS
  <2>3. rbuff \in Seq(Cells) /\ delivered = [k \in 1 .. 0 |-> Frame(k)]
    BY <2>1
  <2> QED
    BY <2>1, <2>2, <2>3 DEF LinkInv
<1>2. LinkSpec => Spec
  BY LinkIsWriter, PTL DEF LinkSpec, LinkInit, Spec
<1>3. IInv /\ LinkInv /\ [LinkNext]_<<vars, linkVars>> => LinkInv'
  BY LinkStep
<1> QED
  BY <1>1, <1>2, <1>3, InvariantIInv, PTL DEF LinkSpec

-----------------------------------------------------------------------------
(* The connection is a channel.                                            *)

\* The frames that were sent.
Frames(n) == [k \in 1 .. n |-> Frame(k)]

LEMMA LinkChannelStep ==
    ASSUME IInv, LinkInv, [LinkNext]_<<vars, linkVars>>
    PROVE  [LinkChannel!Next]_<<Frames(sent), delivered>>
<1>1. /\ sent \in 0 .. MaxSends /\ sent \in Nat /\ Len(written) \in 0 .. sent
      /\ Len(delivered) \in 0 .. Len(written)
      /\ delivered = Frames(Len(delivered))
  BY WrittenBounds, MaxSendsType DEF LinkInv, Frames
<1>2. CASE (\E g \in Senders : Send(g)) /\ UNCHANGED linkVars
  <2>1. sent' = sent + 1 /\ sent + 1 \in 1 .. MaxSends /\ delivered' = delivered
    BY <1>1, <1>2, MaxSendsType DEF Send, linkVars
  <2>2. Frames(sent + 1) = Append(Frames(sent), Frame(sent + 1))
    BY <1>1 DEF Frames
  <2>3. Frames(sent)' = Append(Frames(sent), Frame(sent + 1))
    BY <2>1, <2>2 DEF Frames
  <2>4. LinkChannel!Put
    BY <2>1, <2>3 DEF LinkChannel!Put, Frames
  <2> QED
    BY <2>4 DEF LinkChannel!Next
<1>3. CASE OnMessage /\ Unpack(rbuff) # 0
  <2> DEFINE d == Len(delivered) + 1
  <2>1. LinkInv' /\ written' = written /\ sent' = sent
    BY <1>3, LinkMessage DEF OnMessage, vars
  <2>2. delivered' = Append(delivered, Frame(d))
    <3>1. Unpack(rbuff) \in 1 .. Len(rbuff) /\ SubSeq(rbuff, 1, Unpack(rbuff)) = Frame(d)
      BY <1>3, UnpackFindsFrame
    <3>2. Unpack(rbuff) > 0
      BY <3>1
    <3> QED
      BY <1>3, <3>1, <3>2 DEF OnMessage
  <2>3. Len(delivered') = d /\ d \in Nat
    BY <1>1, <2>2 DEF Frames
  <2>4. delivered' = Frames(d) /\ d \in 0 .. Len(written)
    BY <2>1, <2>3 DEF LinkInv, Frames
  <2>5. d \in Len(delivered) .. sent
    BY <1>1, <2>4
  <2>6. Frames(d) = SubSeq(Frames(sent), 1, d)
    BY <1>1, <2>3, <2>5 DEF Frames
  <2>7. Len(Frames(sent)) = sent /\ Frames(sent)' = Frames(sent)
    BY <1>1, <2>1 DEF Frames
  <2>8. LinkChannel!Get
    BY <2>4, <2>5, <2>6, <2>7 DEF LinkChannel!Get, Frames
  <2> QED
    BY <2>8 DEF LinkChannel!Next
<1>4. CASE UNCHANGED <<sent, delivered>>
  BY <1>4 DEF Frames
<1>5. CASE OnMessage /\ Unpack(rbuff) = 0
  BY <1>4, <1>5 DEF OnMessage, vars
<1>6. CASE (\E n \in 1 .. Len(Stream[Len(written)]) - read : Read(n)) \/ ReadFails
  BY <1>4, <1>6 DEF Read, ReadFails, vars
<1>7. CASE UNCHANGED linkVars /\ [Next]_vars /\ ~ \E g \in Senders : Send(g)
  BY <1>4, <1>7 DEF linkVars, Next, loopWrite, Post, Close, Take, FindEmpty, Write, WriteFails,
                    Arm, Wake, Quit, vars
<1> QED
  BY <1>2, <1>3, <1>5, <1>6, <1>7 DEF LinkNext, loopRead

\* From Send to OnMessage a connection is a channel, for any senders, any number
\* and lengths of messages and any way the stream is cut up: every OnMessage is
\* given the next message that was sent, whole (loopRead and Unpack).
THEOREM LinkImplementsChannel == LinkSpec => LinkIsChannel
<1>1. LinkInit => LinkChannel!Init
  BY DEF LinkInit, Init, LinkChannel!Init
<1>2. IInv /\ LinkInv /\ [LinkNext]_<<vars, linkVars>>
      => [LinkChannel!Next]_<<[k \in 1 .. sent |-> Frame(k)], delivered>>
  BY LinkChannelStep DEF Frames
<1> QED
  BY <1>1, <1>2, InvariantLinkInv, PTL DEF LinkSpec, LinkIsChannel, LinkChannel!Spec
=============================================================================
