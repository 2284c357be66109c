--------------------------- MODULE IoBufferProofs ---------------------------
(* Proofs about IoBuffer, for any number of packets, packet sizes, reads    *)
(* and deadlines: the wakeup of the reader, and what it reads.              *)
EXTENDS IoBuffer, SequenceTheorems, WellFoundedInduction, TLAPS

-----------------------------------------------------------------------------
(* The wakeup.                                                             *)

Flags == consumerWaiting \in BOOLEAN /\ ch \in BOOLEAN /\ posting \in BOOLEAN /\ err \in BOOLEAN

\* NoLostWakeup is inductive: the check of the list and the announcement are
\* one critical section (Announce), and a Put that takes the announcement back
\* is the one that posts.
WakeupInv == Flags /\ NoLostWakeup

LEMMA WakeupInit == Init => WakeupInv
  BY DEF Init, WakeupInv, Flags, NoLostWakeup

LEMMA WakeupStep == WakeupInv /\ [Next]_vars => WakeupInv'
<1> SUFFICES ASSUME WakeupInv, [Next]_vars PROVE WakeupInv'
  OBVIOUS
<1> USE DEF WakeupInv, Flags, NoLostWakeup
<1>1. ASSUME NEW k \in 0 .. MaxPacket, Put(k) PROVE WakeupInv'
  BY <1>1 DEF Put
<1>2. CASE Post
  BY <1>2 DEF Post
<1>3. CASE OnClose
  BY <1>3 DEF OnClose
<1>4. ASSUME NEW z \in BOOLEAN, SetTimeout(z) PROVE WakeupInv'
  BY <1>4 DEF SetTimeout
<1>5. CASE TimerFires
  BY <1>5 DEF TimerFires
<1>6. ASSUME NEW n \in ReadSizes, Get(n) PROVE WakeupInv'
  BY <1>6 DEF Get
<1>7. CASE Data
  BY <1>7 DEF Data
<1>8. CASE End
  BY <1>8 DEF End
<1>9. CASE Announce
  BY <1>9 DEF Announce
<1>10. CASE Wake
  BY <1>10 DEF Wake
<1>11. CASE Timeout
  BY <1>11 DEF Timeout
<1>12. CASE ErrTimeout
  BY <1>12 DEF ErrTimeout
<1>13. CASE Finish
  BY <1>13 DEF Finish
<1>14. CASE UNCHANGED vars
  BY <1>14 DEF vars, timerVars
<1> QED
  BY <1>1, <1>2, <1>3, <1>4, <1>5, <1>6, <1>7, <1>8, <1>9, <1>10, <1>11, <1>12, <1>13, <1>14
     DEF Next, Reader

\* A reader of the buffer that waits has nothing to read, or is being woken,
\* whatever Put, the deadlines and the close of the connection do.
THEOREM ReaderIsWoken == Spec => []NoLostWakeup
<1>1. WakeupInv => NoLostWakeup
  BY DEF WakeupInv
<1> QED
  BY <1>1, WakeupInit, WakeupStep, PTL DEF Spec

-----------------------------------------------------------------------------
(* Induction.                                                              *)

LEMMA LeastNumber ==
    ASSUME NEW T \in SUBSET Nat, T # {} PROVE \E x \in T : \A y \in T : x <= y
<1> DEFINE R == OpToRel(<, Nat)
<1>1. IsWellFoundedOn(R, Nat)
  BY NatLessThanWellFounded, Zenon
<1>2. \A x, y \in Nat : y < x => <<y, x>> \in R
  BY Zenon DEF OpToRel
<1> HIDE DEF R
<1>3. \E x \in T : \A y \in T : ~ (<<y, x>> \in R)
  BY <1>1, WFMin
<1>4. \E x \in T : \A y \in T : ~ (y < x)
  BY <1>2, <1>3, Zenon
<1> QED
  BY <1>4

\* Induction, for a set instead of a predicate.
LEMMA Induction ==
    ASSUME NEW T, 0 \in T, \A n \in Nat : n \in T => n + 1 \in T PROVE \A n \in Nat : n \in T
<1> SUFFICES ASSUME NEW n \in Nat, n \notin T PROVE FALSE
  OBVIOUS
<1>1. PICK x \in Nat \ T : \A y \in Nat \ T : x <= y
  BY LeastNumber
<1>2. x - 1 \in Nat /\ x - 1 \in T
  BY <1>1
<1>3. (x - 1) + 1 \in T /\ (x - 1) + 1 = x
  BY <1>2
<1> QED
  BY <1>3

-----------------------------------------------------------------------------
(* Flattened lists.  FlattenSeq is a recursive function: that it has the    *)
(* values of its equation takes a proof.                                   *)

Bytes == Seq(Nat)
Lists == Seq(Bytes)

\* g is the flattening of the first k packets of l.
FlatTo(g, l, k) == g = [i \in 1 .. k |-> IF i = 1 THEN l[i] ELSE g[i - 1] \o l[i]]

LEMMA FlatToValues ==
    ASSUME NEW g, NEW l, NEW k \in Nat, FlatTo(g, l, k), NEW i \in 1 .. k
    PROVE  g[i] = IF i = 1 THEN l[i] ELSE g[i - 1] \o l[i]
BY DEF FlatTo

LEMMA FlatToExists == ASSUME NEW l PROVE \A k \in Nat : \E g : FlatTo(g, l, k)
<1> DEFINE T == {k \in Nat : \E g : FlatTo(g, l, k)}
<1>1. 0 \in T
  <2> DEFINE h == [i \in 1 .. 0 |-> l[i]]
  <2>1. FlatTo(h, l, 0)
    BY DEF FlatTo
  <2> QED
    BY <2>1
<1>2. ASSUME NEW k \in Nat, k \in T PROVE k + 1 \in T
  <2>1. PICK g : FlatTo(g, l, k)
    BY <1>2
  <2> DEFINE h == [i \in 1 .. k + 1 |->
                      IF i = k + 1 THEN IF k = 0 THEN l[i] ELSE g[k] \o l[i] ELSE g[i]]
  <2>2. ASSUME NEW i \in 1 .. k + 1 PROVE h[i] = IF i = 1 THEN l[i] ELSE h[i - 1] \o l[i]
    <3>1. CASE i = k + 1
      <4>1. CASE k = 0
        BY <3>1, <4>1
      <4>2. CASE k # 0
        <5>1. k \in 1 .. k + 1 /\ k # k + 1 /\ i - 1 = k /\ i # 1
          BY <3>1, <4>2
        <5> QED
          BY <3>1, <4>2, <5>1
      <4> QED
        BY <4>1, <4>2
    <3>2. CASE i \in 1 .. k
      BY <2>1, <3>2, FlatToValues
    <3> QED
      BY <3>1, <3>2
  <2>3. h = [i \in 1 .. k + 1 |-> h[i]]
    OBVIOUS
  <2> HIDE DEF h
  <2>4. FlatTo(h, l, k + 1)
    BY <2>2, <2>3, Zenon DEF FlatTo
  <2> QED
    BY <2>4
<1> HIDE DEF T
<1>3. \A k \in Nat : k \in T
  BY <1>1, <1>2, Induction
<1> QED
  BY <1>3 DEF T

\* The flattening of the first packets does not depend on the others.
LEMMA FlatToUnique ==
    ASSUME NEW g, NEW h, NEW l, NEW m, NEW k \in Nat, NEW n \in Nat, k <= n,
           FlatTo(g, l, k), FlatTo(h, m, n), \A i \in 1 .. k : l[i] = m[i]
    PROVE  \A i \in 1 .. k : g[i] = h[i]
<1> DEFINE T == {i \in Nat : i \in 1 .. k => g[i] = h[i]}
<1>1. 0 \in T
  OBVIOUS
<1>2. ASSUME NEW i \in Nat, i \in T PROVE i + 1 \in T
  <2> SUFFICES ASSUME i + 1 \in 1 .. k PROVE g[i + 1] = h[i + 1]
    OBVIOUS
  <2>1. i + 1 \in 1 .. n /\ l[i + 1] = m[i + 1]
    OBVIOUS
  <2>2. /\ g[i + 1] = IF i + 1 = 1 THEN l[i + 1] ELSE g[(i + 1) - 1] \o l[i + 1]
        /\ h[i + 1] = IF i + 1 = 1 THEN m[i + 1] ELSE h[(i + 1) - 1] \o m[i + 1]
    BY <2>1, FlatToValues
  <2>3. CASE i = 0
    BY <2>1, <2>2, <2>3
  <2>4. CASE i # 0
    <3>1. i \in 1 .. k /\ (i + 1) - 1 = i /\ i + 1 # 1
      BY <2>4
    <3>2. g[i] = h[i]
      BY <1>2, <3>1
    <3> QED
      BY <2>1, <2>2, <3>1, <3>2
  <2> QED
    BY <2>3, <2>4
<1> HIDE DEF T
<1>3. \A i \in Nat : i \in T
  BY <1>1, <1>2, Induction
<1> QED
  BY <1>3 DEF T

LEMMA FlatLast ==
    ASSUME NEW l \in Lists, l # << >>
    PROVE  \E g : FlatTo(g, l, Len(l)) /\ FlattenSeq(l) = g[Len(l)]
<1> DEFINE g == CHOOSE f : f = [i \in 1 .. Len(l) |-> IF i = 1 THEN l[i] ELSE f[i - 1] \o l[i]]
<1>1. Len(l) \in Nat /\ Len(l) # 0
  BY EmptySeq, LenProperties DEF Lists
<1>2. \E f : f = [i \in 1 .. Len(l) |-> IF i = 1 THEN l[i] ELSE f[i - 1] \o l[i]]
  BY <1>1, FlatToExists DEF FlatTo
<1>3. FlatTo(g, l, Len(l))
  BY <1>2, Zenon DEF FlatTo
<1>4. FlattenSeq(l) = g[Len(l)]
  BY <1>1, Zenon DEF FlattenSeq
<1> HIDE DEF g
<1> QED
  BY <1>3, <1>4

LEMMA FlatEmpty == FlattenSeq(<< >>) = << >>
BY DEF FlattenSeq

LEMMA FlatAppendStep ==
    ASSUME NEW l \in Lists, NEW s \in Bytes
    PROVE  FlattenSeq(Append(l, s)) = IF l = << >> THEN s ELSE FlattenSeq(l) \o s
<1> DEFINE m == Append(l, s)
           n == Len(l)
<1>1. /\ m \in Lists /\ Len(m) = n + 1 /\ n \in Nat /\ m[n + 1] = s /\ m # << >>
      /\ \A i \in 1 .. n : m[i] = l[i]
  BY AppendProperties, LenProperties DEF Lists
<1> HIDE DEF m
<1>2. PICK h : FlatTo(h, m, n + 1) /\ FlattenSeq(m) = h[n + 1]
  BY <1>1, FlatLast
<1>3. h[n + 1] = IF n + 1 = 1 THEN m[n + 1] ELSE h[(n + 1) - 1] \o m[n + 1]
  BY <1>1, <1>2, FlatToValues
<1>4. CASE l = << >>
  BY <1>1, <1>2, <1>3, <1>4 DEF m
<1>5. CASE l # << >>
  <2>1. PICK g : FlatTo(g, l, n) /\ FlattenSeq(l) = g[n]
    BY <1>5, FlatLast
  <2>2. n # 0 /\ n \in 1 .. n /\ (n + 1) - 1 = n /\ n + 1 # 1 /\ n <= n + 1
    BY <1>1, <1>5, EmptySeq DEF Lists
  <2>3. g[n] = h[n]
    BY <1>1, <1>2, <2>1, <2>2, FlatToUnique
  <2>4. h[n + 1] = h[n] \o m[n + 1]
    BY <1>3, <2>2
  <2> QED
    BY <1>1, <1>2, <1>5, <2>1, <2>3, <2>4 DEF m
<1> QED
  BY <1>4, <1>5

\* A non-empty list is what it was before its last packet.
LEMMA LastPacket ==
    ASSUME NEW l \in Lists, NEW n \in Nat, Len(l) = n + 1
    PROVE  \E k \in Lists, s \in Bytes : l = Append(k, s) /\ Len(k) = n
<1>1. l # << >>
  OBVIOUS
<1>2. PICK k \in Seq(Bytes), s \in Bytes : l = Append(k, s)
  BY <1>1, SequenceEmptyOrAppend DEF Lists
<1>3. Len(k) = n
  BY <1>2, AppendProperties, LenProperties
<1> QED
  BY <1>2, <1>3 DEF Lists

LEMMA FlatType == \A l \in Lists : FlattenSeq(l) \in Bytes
<1> DEFINE T == {n \in Nat : \A l \in Lists : Len(l) = n => FlattenSeq(l) \in Bytes}
<1>1. 0 \in T
  <2> SUFFICES ASSUME NEW l \in Lists, Len(l) = 0 PROVE FlattenSeq(l) \in Bytes
    OBVIOUS
  <2>1. l = << >>
    BY EmptySeq DEF Lists
  <2>2. << >> \in Bytes
    BY DEF Bytes
  <2> QED
    BY <2>1, <2>2, FlatEmpty
<1>2. ASSUME NEW n \in Nat, n \in T PROVE n + 1 \in T
  <2> SUFFICES ASSUME NEW l \in Lists, Len(l) = n + 1 PROVE FlattenSeq(l) \in Bytes
    OBVIOUS
  <2>1. PICK k \in Lists, s \in Bytes : l = Append(k, s) /\ Len(k) = n
    BY LastPacket
  <2>2. FlattenSeq(k) \in Bytes
    BY <1>2, <2>1
  <2>3. FlattenSeq(l) = IF k = << >> THEN s ELSE FlattenSeq(k) \o s
    BY <2>1, FlatAppendStep
  <2>4. FlattenSeq(k) \o s \in Bytes
    BY <2>2, ConcatProperties DEF Bytes
  <2> QED
    BY <2>3, <2>4
<1> HIDE DEF T
<1>3. \A n \in Nat : n \in T
  BY <1>1, <1>2, Induction
<1>4. \A l \in Lists : Len(l) \in Nat
  BY LenProperties DEF Lists
<1> QED
  BY <1>3, <1>4 DEF T

LEMMA FlatAppend ==
    ASSUME NEW l \in Lists, NEW s \in Bytes
    PROVE  FlattenSeq(Append(l, s)) = FlattenSeq(l) \o s
<1>1. << >> \o s = s
  BY ConcatEmptySeq DEF Bytes
<1> QED
  BY <1>1, FlatAppendStep, FlatEmpty

LEMMA Assoc ==
    ASSUME NEW a \in Bytes, NEW b \in Bytes, NEW c \in Bytes
    PROVE  (a \o b) \o c = a \o (b \o c)
BY ConcatAssociative, SMTT(30) DEF Bytes

LEMMA FlatCons ==
    ASSUME NEW s \in Bytes
    PROVE  \A l \in Lists : FlattenSeq(<<s>> \o l) = s \o FlattenSeq(l)
<1> DEFINE T == {n \in Nat : \A l \in Lists :
                    Len(l) = n => FlattenSeq(<<s>> \o l) = s \o FlattenSeq(l)}
<1>0. <<s>> \in Lists /\ << >> \in Lists
  BY DEF Lists
<1>1. 0 \in T
  <2> SUFFICES ASSUME NEW l \in Lists, Len(l) = 0
               PROVE  FlattenSeq(<<s>> \o l) = s \o FlattenSeq(l)
    OBVIOUS
  <2>1. l = << >>
    BY EmptySeq DEF Lists
  <2>2. <<s>> \o << >> = Append(<< >>, s)
    BY DEF Bytes
  <2>3. FlattenSeq(Append(<< >>, s)) = s
    BY <1>0, FlatAppendStep
  <2>4. s \o << >> = s
    BY ConcatEmptySeq DEF Bytes
  <2> QED
    BY <2>1, <2>2, <2>3, <2>4, FlatEmpty
<1>2. ASSUME NEW n \in Nat, n \in T PROVE n + 1 \in T
  <2> SUFFICES ASSUME NEW l \in Lists, Len(l) = n + 1
               PROVE  FlattenSeq(<<s>> \o l) = s \o FlattenSeq(l)
    OBVIOUS
  <2>1. PICK k \in Lists, x \in Bytes : l = Append(k, x) /\ Len(k) = n
    BY LastPacket
  <2>2. FlattenSeq(<<s>> \o k) = s \o FlattenSeq(k)
    BY <1>2, <2>1
  <2>3. <<s>> \o k \in Lists
    BY <1>0, ConcatProperties DEF Lists
  <2>4. <<s>> \o Append(k, x) = Append(<<s>> \o k, x)
    BY <1>0 DEF Lists
  <2>5. FlattenSeq(Append(<<s>> \o k, x)) = (s \o FlattenSeq(k)) \o x
    BY <2>2, <2>3, FlatAppend
  <2>6. FlattenSeq(k) \in Bytes /\ FlattenSeq(l) = FlattenSeq(k) \o x
    BY <2>1, FlatType, FlatAppend
  <2>7. (s \o FlattenSeq(k)) \o x = s \o (FlattenSeq(k) \o x)
    BY <2>6, Assoc
  <2> QED
    BY <2>1, <2>4, <2>5, <2>6, <2>7
<1> HIDE DEF T
<1>3. \A n \in Nat : n \in T
  BY <1>1, <1>2, Induction
<1>4. \A l \in Lists : Len(l) \in Nat
  BY LenProperties DEF Lists
<1> QED
  BY <1>3, <1>4 DEF T

-----------------------------------------------------------------------------
(* The copy loop, also a recursive function.                               *)

NonEmpty == Lists \ {<< >>}

\* One turn of the loop, on the list l, when the turns after it do p.
Turn(p, l) ==
    [room \in Nat |->
        LET s == Head(l) IN
        IF Len(s) > room
        THEN [got |-> SubSeq(s, 1, room),
              left |-> <<SubSeq(s, room + 1, Len(s))>> \o Tail(l)]
        ELSE IF Len(l) = 1 \/ Len(s) = room
             THEN [got |-> s, left |-> Tail(l)]
             ELSE LET rest == p[room - Len(s)]
                  IN [got |-> s \o rest.got, left |-> rest.left]]

Upto(k) == {l \in NonEmpty : Len(l) <= k}

\* g is the loop on lists of at most k packets.
CopyTo(g, k) == g = [l \in Upto(k) |-> Turn(g[Tail(l)], l)]

LEMMA CopyToValues ==
    ASSUME NEW g, NEW k \in Nat, CopyTo(g, k), NEW l \in Upto(k)
    PROVE  g[l] = Turn(g[Tail(l)], l)
BY DEF CopyTo

\* On the last packet the loop does not go on.
LEMMA LastTurn ==
    ASSUME NEW p, NEW q, NEW l, Len(l) = 1 PROVE Turn(p, l) = Turn(q, l)
BY DEF Turn

LEMMA Parts ==
    ASSUME NEW l \in NonEmpty
    PROVE  /\ Head(l) \in Bytes /\ Tail(l) \in Lists /\ l = <<Head(l)>> \o Tail(l)
           /\ Len(l) \in Nat \ {0} /\ Len(Tail(l)) = Len(l) - 1
           /\ Len(l) # 1 => Tail(l) \in NonEmpty
           /\ Len(l) = 1 => Tail(l) = << >>
<1>1. l \in Seq(Bytes) /\ l # << >>
  BY DEF NonEmpty, Lists
<1>2. Head(l) \in Bytes /\ Tail(l) \in Seq(Bytes) /\ Len(Tail(l)) = Len(l) - 1
  BY <1>1, HeadTailProperties
<1>3. Len(l) \in Nat \ {0}
  BY <1>1, EmptySeq, LenProperties
<1>4. l = <<Head(l)>> \o Tail(l)
  BY <1>1
<1>5. (Len(l) # 1 => Tail(l) # << >>) /\ (Len(l) = 1 => Tail(l) = << >>)
  <2> DEFINE t == Tail(l)
  <2>1. t \in Seq(Bytes) /\ Len(t) = Len(l) - 1
    BY <1>2
  <2> HIDE DEF t
  <2>2. t = << >> <=> Len(t) = 0
    BY <2>1, EmptySeq
  <2>3. Len(t) = 0 <=> Len(l) = 1
    BY <1>3, <2>1
  <2> QED
    BY <2>2, <2>3 DEF t
<1> QED
  BY <1>1, <1>2, <1>3, <1>4, <1>5 DEF NonEmpty, Lists

LEMMA CopyToExists == \A k \in Nat : \E g : CopyTo(g, k)
<1> DEFINE T == {k \in Nat : \E g : CopyTo(g, k)}
<1>1. 0 \in T
  <2> DEFINE h == [l \in Upto(0) |-> 0]
  <2>1. ASSUME NEW l \in Upto(0) PROVE FALSE
    <3>1. l \in NonEmpty /\ Len(l) <= 0
      BY DEF Upto
    <3>2. Len(l) \in Nat \ {0}
      BY <3>1, Parts
    <3> QED
      BY <3>1, <3>2
  <2>2. CopyTo(h, 0)
    BY <2>1 DEF CopyTo
  <2> QED
    BY <2>2
<1>2. ASSUME NEW k \in Nat, k \in T PROVE k + 1 \in T
  <2>1. PICK g : CopyTo(g, k)
    BY <1>2
  <2> DEFINE h == [l \in Upto(k + 1) |-> Turn(g[Tail(l)], l)]
  <2>2. ASSUME NEW l \in Upto(k + 1) PROVE h[l] = Turn(h[Tail(l)], l)
    <3>1. CASE Len(l) = 1
      BY <3>1, LastTurn
    <3>2. CASE Len(l) # 1
      <4>1. l \in NonEmpty /\ Len(l) <= k + 1
        BY DEF Upto
      <4>2. Tail(l) \in NonEmpty /\ Len(Tail(l)) = Len(l) - 1 /\ Len(l) \in Nat
        BY <3>2, <4>1, Parts
      <4>3. Tail(l) \in Upto(k) /\ Tail(l) \in Upto(k + 1)
        BY <4>1, <4>2 DEF Upto
      <4>4. h[Tail(l)] = Turn(g[Tail(Tail(l))], Tail(l))
        BY <4>3
      <4>5. g[Tail(l)] = Turn(g[Tail(Tail(l))], Tail(l))
        BY <2>1, <4>3, CopyToValues
      <4> QED
        BY <4>4, <4>5
    <3> QED
      BY <3>1, <3>2
  <2>3. h = [l \in Upto(k + 1) |-> h[l]]
    OBVIOUS
  <2> HIDE DEF h
  <2>4. CopyTo(h, k + 1)
    BY <2>2, <2>3, Zenon DEF CopyTo
  <2> QED
    BY <2>4
<1> HIDE DEF T
<1>3. \A k \in Nat : k \in T
  BY <1>1, <1>2, Induction
<1> QED
  BY <1>3 DEF T

LEMMA CopyToUnique ==
    ASSUME NEW g, NEW h, NEW k \in Nat, NEW m \in Nat, k <= m, CopyTo(g, k), CopyTo(h, m)
    PROVE  \A l \in Upto(k) : g[l] = h[l]
<1> DEFINE T == {n \in Nat : \A l \in Upto(k) : Len(l) = n => g[l] = h[l]}
<1>0. ASSUME NEW l \in Upto(k)
      PROVE  /\ l \in NonEmpty /\ l \in Upto(m) /\ Len(l) \in Nat \ {0}
             /\ Len(l) # 1 => Tail(l) \in Upto(k) /\ Len(Tail(l)) = Len(l) - 1
             /\ g[l] = Turn(g[Tail(l)], l) /\ h[l] = Turn(h[Tail(l)], l)
  <2>1. l \in NonEmpty /\ Len(l) <= k
    BY DEF Upto
  <2>2. Len(l) \in Nat \ {0} /\ Len(Tail(l)) = Len(l) - 1 /\ (Len(l) # 1 => Tail(l) \in NonEmpty)
    BY <2>1, Parts
  <2>3. l \in Upto(m) /\ (Len(l) # 1 => Tail(l) \in Upto(k))
    BY <2>1, <2>2 DEF Upto
  <2> QED
    BY <2>1, <2>2, <2>3, CopyToValues
<1>1. 0 \in T
  BY <1>0
<1>2. ASSUME NEW n \in Nat, n \in T PROVE n + 1 \in T
  <2> SUFFICES ASSUME NEW l \in Upto(k), Len(l) = n + 1 PROVE g[l] = h[l]
    OBVIOUS
  <2>1. CASE Len(l) = 1
    <3>1. Turn(g[Tail(l)], l) = Turn(h[Tail(l)], l)
      BY <2>1, LastTurn
    <3> QED
      BY <1>0, <3>1
  <2>2. CASE Len(l) # 1
    <3>1. Tail(l) \in Upto(k) /\ Len(Tail(l)) = Len(l) - 1
      BY <1>0, <2>2
    <3>2. Len(Tail(l)) = n
      BY <3>1
    <3>3. g[Tail(l)] = h[Tail(l)]
      BY <1>2, <3>1, <3>2
    <3> QED
      BY <1>0, <3>3
  <2> QED
    BY <2>1, <2>2
<1> HIDE DEF T
<1>3. \A n \in Nat : n \in T
  BY <1>1, <1>2, Induction
<1>4. \A l \in Upto(k) : Len(l) \in Nat
  BY <1>0
<1> QED
  BY <1>3, <1>4 DEF T

\* The definition of the copy loop has a solution.
LEMMA CopyDef == \A l \in NonEmpty : copyLoop[l] = Turn(copyLoop[Tail(l)], l)
<1> DEFINE G(k) == CHOOSE g : CopyTo(g, k)
           f == [l \in NonEmpty |-> G(Len(l))[l]]
<1>1. \A k \in Nat : CopyTo(G(k), k)
  BY CopyToExists, Zenon
<1> HIDE DEF G
<1>2. ASSUME NEW l \in NonEmpty PROVE f[l] = Turn(f[Tail(l)], l)
  <2>0. Len(l) \in Nat /\ l \in Upto(Len(l))
    BY Parts DEF Upto
  <2>1. f[l] = Turn(G(Len(l))[Tail(l)], l)
    BY <1>1, <2>0, CopyToValues
  <2>2. CASE Len(l) = 1
    BY <2>1, <2>2, LastTurn
  <2>3. CASE Len(l) # 1
    <3> DEFINE k == Len(Tail(l))
    <3>0. Tail(l) \in NonEmpty /\ k = Len(l) - 1 /\ Len(l) \in Nat \ {0}
      BY <2>3, Parts
    <3>1. Tail(l) \in NonEmpty /\ k \in Nat /\ k <= Len(l)
      BY <3>0
    <3>2. Tail(l) \in Upto(k)
      BY <3>1 DEF Upto
    <3>3. f[Tail(l)] = G(k)[Tail(l)]
      BY <3>1
    <3> HIDE DEF k
    <3>4. G(k)[Tail(l)] = G(Len(l))[Tail(l)]
      BY <1>1, <2>0, <3>1, <3>2, CopyToUnique
    <3> QED
      BY <2>1, <3>3, <3>4
  <2> QED
    BY <2>2, <2>3
<1>3. f = [l \in NonEmpty |-> f[l]]
  OBVIOUS
<1> HIDE DEF f
<1>4. f = [l \in NonEmpty |-> Turn(f[Tail(l)], l)]
  BY <1>2, <1>3, Zenon
<1>5. copyLoop = [l \in NonEmpty |-> Turn(copyLoop[Tail(l)], l)]
  BY <1>4, Zenon DEF copyLoop, NonEmpty, Lists, Bytes, Turn
<1> QED
  BY <1>5

\* r is the list l cut in two: what was got, and what is left.
Cut(r, l) ==
    /\ r.got \in Bytes
    /\ r.left \in Lists
    /\ r.got \o FlattenSeq(r.left) = FlattenSeq(l)

LEMMA Split ==
    ASSUME NEW s \in Bytes, NEW n \in Nat, n < Len(s)
    PROVE  /\ SubSeq(s, 1, n) \in Bytes /\ SubSeq(s, n + 1, Len(s)) \in Bytes
           /\ SubSeq(s, 1, n) \o SubSeq(s, n + 1, Len(s)) = s
<1>1. s \in Seq(Nat) /\ Len(s) \in Nat
  BY LenProperties DEF Bytes
<1>2. SubSeq(s, 1, n) \in Seq(Nat) /\ SubSeq(s, n + 1, Len(s)) \in Seq(Nat)
  BY <1>1, SubSeqProperties
<1>3. n \in 1 - 1 .. Len(s) /\ Len(s) \in n .. Len(s) /\ 1 \in 1 .. Len(s) + 1
  BY <1>1
<1>4. SubSeq(s, 1, n) \o SubSeq(s, n + 1, Len(s)) = SubSeq(s, 1, Len(s))
  BY <1>1, <1>3, ConcatAdjacentSubSeq, Zenon
<1>5. SubSeq(s, 1, Len(s)) = s
  BY <1>1, SubSeqFull, Zenon
<1> QED
  BY <1>2, <1>4, <1>5, Zenon DEF Bytes

LEMMA TurnCuts ==
    ASSUME NEW l \in NonEmpty, NEW room \in Nat, NEW p,
           Len(l) # 1 => \A n \in Nat : Cut(p[n], Tail(l))
    PROVE  Cut(Turn(p, l)[room], l)
<1> DEFINE s == Head(l)
           t == Tail(l)
           F == FlattenSeq(t)
<1>1. s \in Bytes /\ t \in Lists /\ l = <<s>> \o t /\ Len(l) \in Nat \ {0}
  BY Parts
<1>2. F \in Bytes /\ FlattenSeq(l) = s \o F
  BY <1>1, FlatType, FlatCons
<1>3. Len(s) \in Nat
  BY <1>1, LenProperties DEF Bytes
<1>4. CASE Len(s) > room
  <2> DEFINE a == SubSeq(s, 1, room)
             b == SubSeq(s, room + 1, Len(s))
  <2>1. Turn(p, l)[room] = [got |-> a, left |-> <<b>> \o t]
    BY <1>4 DEF Turn
  <2>2. a \in Bytes /\ b \in Bytes /\ a \o b = s
    BY <1>1, <1>3, <1>4, Split
  <2> HIDE DEF a, b, s, t, F
  <2>3. <<b>> \o t \in Lists
    BY <1>1, <2>2, ConcatProperties DEF Lists
  <2>4. FlattenSeq(<<b>> \o t) = b \o F
    BY <1>1, <2>2, FlatCons DEF F
  <2>5. a \o (b \o F) = (a \o b) \o F
    BY <1>2, <2>2, Assoc
  <2> DEFINE c == <<b>> \o t
  <2>6. a \in Bytes /\ c \in Lists /\ a \o FlattenSeq(c) = FlattenSeq(l)
    BY <1>2, <2>2, <2>3, <2>4, <2>5
  <2>7. Turn(p, l)[room] = [got |-> a, left |-> c]
    BY <2>1
  <2> HIDE DEF c
  <2> QED
    BY <2>6, <2>7 DEF Cut
<1>5. CASE ~ (Len(s) > room) /\ (Len(l) = 1 \/ Len(s) = room)
  <2>1. Turn(p, l)[room] = [got |-> s, left |-> t]
    BY <1>5 DEF Turn
  <2>2. s \in Bytes /\ t \in Lists /\ s \o FlattenSeq(t) = FlattenSeq(l)
    BY <1>1, <1>2
  <2> HIDE DEF s, t
  <2> QED
    BY <2>1, <2>2 DEF Cut
<1>6. CASE ~ (Len(s) > room) /\ ~ (Len(l) = 1 \/ Len(s) = room)
  <2> DEFINE rest == p[room - Len(s)]
             a == rest.got
             b == rest.left
  <2>1. Turn(p, l)[room] = [got |-> s \o a, left |-> b]
    BY <1>6 DEF Turn
  <2>2. room - Len(s) \in Nat
    BY <1>3, <1>6
  <2>3. Cut(rest, t)
    BY <1>6, <2>2
  <2>4. a \in Bytes /\ b \in Lists /\ a \o FlattenSeq(b) = F
    BY <2>3 DEF Cut
  <2> HIDE DEF rest, a, b, s, t, F
  <2>5. FlattenSeq(b) \in Bytes /\ s \o a \in Bytes
    BY <1>1, <2>4, FlatType, ConcatProperties DEF Bytes
  <2>6. (s \o a) \o FlattenSeq(b) = s \o (a \o FlattenSeq(b))
    BY <1>1, <2>4, <2>5, Assoc
  <2> DEFINE c == s \o a
  <2>7. c \in Bytes /\ b \in Lists /\ c \o FlattenSeq(b) = FlattenSeq(l)
    BY <1>2, <2>4, <2>5, <2>6
  <2>8. Turn(p, l)[room] = [got |-> c, left |-> b]
    BY <2>1
  <2> HIDE DEF c
  <2> QED
    BY <2>7, <2>8 DEF Cut
<1> QED
  BY <1>4, <1>5, <1>6

\* The copy loop neither drops nor repeats a byte, whatever the lengths of the
\* packets and of the slice.
LEMMA CopyCuts == \A l \in NonEmpty : \A room \in Nat : Cut(copyLoop[l][room], l)
<1> DEFINE T == {n \in Nat : \A l \in NonEmpty :
                    Len(l) = n => \A room \in Nat : Cut(copyLoop[l][room], l)}
<1>1. 0 \in T
  <2> SUFFICES ASSUME NEW l \in NonEmpty, Len(l) = 0 PROVE FALSE
    OBVIOUS
  <2>1. Len(l) \in Nat \ {0}
    BY Parts
  <2> QED
    BY <2>1
<1>2. ASSUME NEW n \in Nat, n \in T PROVE n + 1 \in T
  <2> SUFFICES ASSUME NEW l \in NonEmpty, Len(l) = n + 1, NEW room \in Nat
               PROVE  Cut(copyLoop[l][room], l)
    OBVIOUS
  <2>1. ASSUME Len(l) # 1 PROVE \A m \in Nat : Cut(copyLoop[Tail(l)][m], Tail(l))
    <3>1. Tail(l) \in NonEmpty /\ Len(Tail(l)) = Len(l) - 1
      BY <2>1, Parts
    <3>2. Len(Tail(l)) = n
      BY <3>1
    <3> QED
      BY <1>2, <3>1, <3>2
  <2>2. Cut(Turn(copyLoop[Tail(l)], l)[room], l)
    BY <2>1, TurnCuts
  <2> QED
    BY <2>2, CopyDef
<1> HIDE DEF T
<1>3. \A n \in Nat : n \in T
  BY <1>1, <1>2, Induction
<1>4. \A l \in NonEmpty : Len(l) \in Nat
  BY Parts
<1> QED
  BY <1>3, <1>4 DEF T

-----------------------------------------------------------------------------
(* What the reader gets.                                                   *)

\* The end has been returned only with an empty list and with err set, after
\* which Put refuses every packet.
OrderInv ==
    /\ list \in Lists
    /\ read \in Bytes
    /\ sent \in Nat
    /\ size \in Nat
    /\ BytesInOrder
    /\ eof => err /\ list = << >>

LEMMA OrderInit == Init => OrderInv
<1> SUFFICES ASSUME Init PROVE OrderInv
  OBVIOUS
<1>1. list = << >> /\ read = << >> /\ sent = 0 /\ size = 1 /\ eof = FALSE
  BY DEF Init
<1>2. << >> \in Lists /\ << >> \in Bytes
  BY DEF Lists, Bytes
<1>3. [i \in 1 .. 0 |-> i] = << >> /\ << >> \o << >> = << >>
  BY DEF Bytes
<1> QED
  BY <1>1, <1>2, <1>3, FlatEmpty DEF OrderInv, BytesInOrder

\* The bytes of the next packet are the next numbers.
LEMMA Numbered ==
    ASSUME NEW n \in Nat, NEW k \in Nat
    PROVE  /\ [i \in 1 .. k |-> n + i] \in Bytes
           /\ [i \in 1 .. n |-> i] \o [i \in 1 .. k |-> n + i] = [i \in 1 .. (n + k) |-> i]
<1> DEFINE a == [i \in 1 .. n |-> i]
           b == [i \in 1 .. k |-> n + i]
           c == [i \in 1 .. (n + k) |-> i]
<1>1. a \in Seq(Nat) /\ b \in Seq(Nat) /\ c \in Seq(Nat)
  OBVIOUS
<1>2. Len(a) = n /\ Len(b) = k /\ Len(c) = n + k
  OBVIOUS
<1>3. a \o b \in Seq(Nat) /\ Len(a \o b) = n + k
  BY <1>1, <1>2, ConcatProperties
<1>4. ASSUME NEW i \in 1 .. n + k PROVE (a \o b)[i] = c[i]
  <2>1. CASE i <= n
    BY <1>1, <1>2, <2>1, ConcatProperties
  <2>2. CASE i > n
    BY <1>1, <1>2, <2>2, ConcatProperties
  <2> QED
    BY <2>1, <2>2
<1> HIDE DEF a, b, c
<1>5. a \o b = c
  BY <1>1, <1>2, <1>3, <1>4, SeqEqual
<1> QED
  BY <1>1, <1>5 DEF a, b, c, Bytes

LEMMA OrderPut ==
    ASSUME OrderInv, NEW k \in 0 .. MaxPacket, Put(k) PROVE OrderInv'
<1> DEFINE s == [i \in 1 .. k |-> sent + i]
<1>1. k \in Nat /\ list \in Lists /\ read \in Bytes /\ sent \in Nat /\ BytesInOrder /\ ~eof
  BY SizesType DEF OrderInv, Put
<1>2. s \in Bytes /\ [i \in 1 .. sent |-> i] \o s = [i \in 1 .. (sent + k) |-> i]
  BY <1>1, Numbered
<1>3. list' = Append(list, s) /\ sent' = sent + k /\ UNCHANGED <<read, size, eof, err>>
  BY DEF Put
<1> HIDE DEF s
<1>4. Append(list, s) \in Lists
  BY <1>1, <1>2 DEF Lists
<1>5. FlattenSeq(Append(list, s)) = FlattenSeq(list) \o s /\ FlattenSeq(list) \in Bytes
  BY <1>1, <1>2, FlatAppend, FlatType
<1>6. read \o (FlattenSeq(list) \o s) = (read \o FlattenSeq(list)) \o s
  BY <1>1, <1>2, <1>5, Assoc
<1>7. read \o FlattenSeq(Append(list, s)) = [i \in 1 .. (sent + k) |-> i]
  BY <1>1, <1>2, <1>5, <1>6 DEF BytesInOrder
<1>8. BytesInOrder'
  BY <1>3, <1>7 DEF BytesInOrder
<1> QED
  BY <1>1, <1>3, <1>4, <1>8 DEF OrderInv

LEMMA OrderData == ASSUME OrderInv, Data PROVE OrderInv'
<1> DEFINE r == copyLoop[list][size]
           a == r.got
           b == r.left
<1>1. /\ list \in NonEmpty /\ size \in Nat /\ read \in Bytes /\ sent \in Nat
      /\ BytesInOrder /\ ~eof
  BY DEF OrderInv, Data, NonEmpty
<1>2. read' = read \o a /\ list' = b /\ UNCHANGED <<sent, size, eof, err>>
  BY DEF Data, copyOut
<1>3. a \in Bytes /\ b \in Lists /\ a \o FlattenSeq(b) = FlattenSeq(list)
  BY <1>1, CopyCuts DEF Cut
<1> HIDE DEF a, b, r
<1>4. FlattenSeq(b) \in Bytes /\ read \o a \in Bytes
  BY <1>1, <1>3, FlatType, ConcatProperties DEF Bytes
<1>5. (read \o a) \o FlattenSeq(b) = read \o (a \o FlattenSeq(b))
  BY <1>1, <1>3, <1>4, Assoc
<1>6. BytesInOrder'
  BY <1>1, <1>2, <1>3, <1>5 DEF BytesInOrder
<1> QED
  BY <1>1, <1>2, <1>3, <1>4, <1>6 DEF OrderInv

LEMMA OrderStep == OrderInv /\ [Next]_vars => OrderInv'
<1> SUFFICES ASSUME OrderInv, [Next]_vars PROVE OrderInv'
  OBVIOUS
<1>1. ASSUME NEW k \in 0 .. MaxPacket, Put(k) PROVE OrderInv'
  BY <1>1, OrderPut
<1>2. CASE Data
  BY <1>2, OrderData
<1>3. ASSUME UNCHANGED <<list, read, sent>>, size' \in Nat, eof' => err' /\ list = << >>
      PROVE  OrderInv'
  BY <1>3 DEF OrderInv, BytesInOrder
<1>4. ASSUME NEW n \in ReadSizes, Get(n) PROVE OrderInv'
  BY <1>3, <1>4, SizesType DEF Get, OrderInv
<1>5. CASE End
  BY <1>3, <1>5 DEF End, OrderInv
<1>6. CASE Finish
  BY <1>3, <1>6 DEF Finish, OrderInv
<1>7. CASE \/ Post \/ OnClose \/ TimerFires \/ Announce \/ Wake \/ Timeout \/ ErrTimeout
           \/ \E z \in BOOLEAN : SetTimeout(z)
           \/ UNCHANGED vars
  BY <1>3, <1>7 DEF OrderInv, Post, OnClose, TimerFires, Announce, Wake, Timeout, ErrTimeout,
                    SetTimeout, vars
<1> QED
  BY <1>1, <1>2, <1>4, <1>5, <1>6, <1>7 DEF Next, Reader

LEMMA InvariantOrderInv == Spec => []OrderInv
BY OrderInit, OrderStep, PTL DEF Spec

\* Get returns the bytes that Put accepted, in order, and none is lost between
\* the copies: the copy loop (buffer.go) leaves in the list what it does not return.
THEOREM BytesStayInOrder == Spec => []BytesInOrder
<1>1. OrderInv => BytesInOrder
  BY DEF OrderInv
<1> QED
  BY <1>1, InvariantOrderInv, PTL

\* The reader sees the end of the connection after everything that Put accepted:
\* Get looks at the list again after Finish, and Put refuses packets from then on.
THEOREM EndComesLast == Spec => []EndAfterData
<1>1. OrderInv => EndAfterData
  <2> SUFFICES ASSUME OrderInv, eof PROVE Len(read) = sent
    BY DEF EndAfterData
  <2>1. read \in Bytes /\ sent \in Nat /\ read \o FlattenSeq(<< >>) = [i \in 1 .. sent |-> i]
    BY DEF OrderInv, BytesInOrder
  <2>2. read = [i \in 1 .. sent |-> i]
    BY <2>1, FlatEmpty, ConcatEmptySeq DEF Bytes
  <2> QED
    BY <2>1, <2>2
<1> QED
  BY <1>1, InvariantOrderInv, PTL
=============================================================================
