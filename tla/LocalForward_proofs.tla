------------------------- MODULE LocalForward_proofs -------------------------
(* Proofs about LocalForward, for any number of units and sizes of buffers.  *)
EXTENDS TLAPS, SequenceTheorems, LocalForward

\* Unit k + 1, then k + 2, and so on.
After(k, s) == \A i \in 1..Len(s) : s[i] = k + i

\* The n units of a flow in four places, from its end to its beginning: those
\* that have come out, those in the last buffer, in the copying thread, in the
\* first buffer.
Total(got, near, held, far) == Len(got) + Len(near) + Len(held) + Len(far)

InOrder(n, got, near, held, far) ==
    /\ After(0, got)
    /\ After(Len(got), near)
    /\ After(Len(got) + Len(near), held)
    /\ After(Len(got) + Len(near) + Len(held), far)
    /\ Total(got, near, held, far) <= n

\* What the client throws away when it resets the connection is missing.
UpInOrder ==
    /\ InOrder(up.sent, up.got, up.channel, data["reader"], up.socket)
    /\ client # "reset" => Total(up.got, up.channel, data["reader"], up.socket) = up.sent

DownInOrder ==
    /\ InOrder(down.sent, down.got, down.socket, data["writer"], down.channel)
    /\ Total(down.got, down.socket, data["writer"], down.channel) = down.sent

\* The thread that copies to the channel, and the end of input behind it.
ReaderInv ==
    /\ reader \in {"none", "read", "send_eof", "done"} => data["reader"] = <<>>
    /\ reader \in {"send_eof", "done"} =>
          up.socket = <<>> /\ client \in {"shut", "closed", "reset"}
    /\ reader = "dead" => client = "reset" \/ lost \/ remote = "ended"
    /\ client = "reset" => up.socket = <<>>
    /\ channel \in {"eof", "closed"} => reader \in {"done", "dead"}
    /\ remoteEof => channel \in {"eof", "closed"} /\ up.channel = <<>>

\* The thread that copies from the channel.
WriterInv ==
    /\ writer \in {"none", "poll", "read", "done"} => data["writer"] = <<>>
    /\ writer = "read" => polled.size \in 0..Len(down.channel)
    /\ writer = "done" => channel = "closed" \/ (remote = "ended" /\ down.channel = <<>>)

\* The thread that waits for both.
ThreadInv ==
    /\ thread \in {"listen", "signal", "accept", "open"} =>
          reader = "none" /\ writer = "none" /\ channel = "none"
    /\ channel = "closed" => thread \in {"done", "dead"}
    /\ thread = "join_writer" => reader = "done"
    /\ thread = "close" => reader \in {"done", "dead"}
    /\ thread = "close" /\ ~failing => reader = "done" /\ writer = "done"
    /\ thread = "done" => reader = "done" /\ writer = "done" /\ remote = "ended"
                          /\ down.channel = <<>>

IInv == TypeOK /\ UpInOrder /\ DownInOrder /\ ReaderInv /\ WriterInv /\ ThreadInv

-----------------------------------------------------------------------------
(* Sequences.                                                               *)

\* The front k elements of a sequence and the rest.
Split(S, s, k) ==
    /\ Front(s, k) \in Seq(S) /\ Len(Front(s, k)) = k
    /\ \A i \in 1..k : Front(s, k)[i] = s[i]
    /\ Rest(s, k) \in Seq(S) /\ Len(Rest(s, k)) = Len(s) - k
    /\ \A i \in 1..(Len(s) - k) : Rest(s, k)[i] = s[k + i]

LEMMA FrontAndRest ==
    ASSUME NEW S, NEW s \in Seq(S), NEW k \in 0..Len(s)
    PROVE  Split(S, s, k)
<1>1. Len(s) \in Nat /\ k \in Nat /\ k <= Len(s) /\ \A i \in 1..Len(s) : s[i] \in S
  BY LenProperties, ElementOfSeq
<1>2. PICK f : f = Front(s, k)
  OBVIOUS
<1>3. PICK r : r = Rest(s, k)
  OBVIOUS
<1>4. f \in Seq(S) /\ Len(f) = k /\ \A i \in 1..k : f[i] = s[i]
  <2>1. 1 \in Int /\ k \in Int /\ \A i \in 1..k : s[i] \in S
    BY <1>1
  <2>2. /\ f \in Seq(S) /\ Len(f) = IF 1 <= k THEN k - 1 + 1 ELSE 0
        /\ \A i \in 1..(k - 1 + 1) : f[i] = s[1 + i - 1]
    BY <1>2, <2>1, SubSeqProperties DEF Front
  <2>3. Len(f) = k
    BY <1>1, <2>2
  <2>4. ASSUME NEW i \in 1..k PROVE i \in 1..(k - 1 + 1) /\ 1 + i - 1 = i
    BY <1>1
  <2> QED
    BY <2>2, <2>3, <2>4
<1>5. r \in Seq(S) /\ Len(r) = Len(s) - k /\ \A i \in 1..(Len(s) - k) : r[i] = s[k + i]
  <2>0. PICK l \in Nat : l = Len(s)
    BY <1>1
  <2>1. k + 1 \in Int /\ l \in Int /\ \A i \in (k + 1)..l : s[i] \in S
    BY <1>1, <2>0
  <2>2. /\ r \in Seq(S) /\ Len(r) = IF k + 1 <= l THEN l - (k + 1) + 1 ELSE 0
        /\ \A i \in 1..(l - (k + 1) + 1) : r[i] = s[k + 1 + i - 1]
    BY <1>3, <2>0, <2>1, SubSeqProperties DEF Rest
  <2>3. Len(r) = l - k
    BY <1>1, <2>0, <2>2
  <2>4. ASSUME NEW i \in 1..(l - k) PROVE i \in 1..(l - (k + 1) + 1) /\ k + 1 + i - 1 = k + i
    BY <1>1, <2>0
  <2> QED
    BY <2>0, <2>2, <2>3, <2>4
<1> QED
  BY <1>2, <1>3, <1>4, <1>5 DEF Split

\* The elements of b behind those of a.
Joined(S, a, b) ==
    /\ a \o b \in Seq(S) /\ Len(a \o b) = Len(a) + Len(b)
    /\ \A i \in 1..Len(a) : (a \o b)[i] = a[i]
    /\ \A i \in 1..Len(b) : (a \o b)[Len(a) + i] = b[i]

LEMMA Concatenation ==
    ASSUME NEW S, NEW a \in Seq(S), NEW b \in Seq(S)
    PROVE  Joined(S, a, b)
<1>1. Len(a) \in Nat /\ Len(b) \in Nat
  BY LenProperties
<1>2. /\ a \o b \in Seq(S) /\ Len(a \o b) = Len(a) + Len(b)
      /\ \A i \in 1..(Len(a) + Len(b)) :
             (a \o b)[i] = IF i <= Len(a) THEN a[i] ELSE b[i - Len(a)]
  BY ConcatProperties
<1>3. ASSUME NEW i \in 1..Len(a) PROVE (a \o b)[i] = a[i]
  <2>1. i \in 1..(Len(a) + Len(b)) /\ i <= Len(a)
    BY <1>1
  <2> QED
    BY <1>2, <2>1
<1>4. ASSUME NEW i \in 1..Len(b) PROVE (a \o b)[Len(a) + i] = b[i]
  <2>1. Len(a) + i \in 1..(Len(a) + Len(b)) /\ ~(Len(a) + i <= Len(a)) /\ Len(a) + i - Len(a) = i
    BY <1>1
  <2>2. (a \o b)[Len(a) + i] = b[Len(a) + i - Len(a)]
    BY <1>2, <2>1
  <2> QED
    BY <2>1, <2>2
<1> QED
  BY <1>2, <1>3, <1>4 DEF Joined

\* One more element.
Longer(S, s, e) ==
    /\ Append(s, e) \in Seq(S) /\ Len(Append(s, e)) = Len(s) + 1
    /\ \A i \in 1..Len(s) : Append(s, e)[i] = s[i]
    /\ Append(s, e)[Len(s) + 1] = e

LEMMA Appending ==
    ASSUME NEW S, NEW s \in Seq(S), NEW e \in S
    PROVE  Longer(S, s, e)
  BY AppendProperties DEF Longer

\* The first element and those behind it.
Shorter(S, s) ==
    /\ Len(s) >= 1 /\ Head(s) \in S /\ Head(s) = s[1]
    /\ Tail(s) \in Seq(S) /\ Len(Tail(s)) = Len(s) - 1
    /\ \A i \in 1..(Len(s) - 1) : Tail(s)[i] = s[i + 1]

LEMMA HeadAndTail ==
    ASSUME NEW S, NEW s \in Seq(S), s # <<>>
    PROVE  Shorter(S, s)
<1>1. Len(s) \in Nat /\ Len(s) # 0
  BY LenProperties, EmptySeq
<1>2. Tail(s) \in Seq(S) /\ Len(Tail(s)) = Len(s) - 1
  BY HeadTailProperties
<1>3. Head(s) = s[1] /\ Head(s) \in S
  BY HeadTailProperties
<1>4. \A i \in 1..Len(Tail(s)) : Tail(s)[i] = s[i + 1]
  BY HeadTailProperties
<1>5. Len(s) >= 1
  BY <1>1
<1> QED
  BY <1>2, <1>3, <1>4, <1>5 DEF Shorter

-----------------------------------------------------------------------------
(* Units in order, and how they move.                                       *)

LEMMA AfterSplit ==
    ASSUME NEW S, NEW s \in Seq(S), NEW k \in Nat, NEW j \in 0..Len(s), After(k, s)
    PROVE  After(k, Front(s, j)) /\ After(k + j, Rest(s, j))
<1>1. Split(S, s, j) /\ Len(s) \in Nat /\ j \in Nat /\ j <= Len(s)
  BY FrontAndRest, LenProperties
<1>2. ASSUME NEW i \in 1..Len(Front(s, j)) PROVE Front(s, j)[i] = k + i
  <2>1. i \in 1..j /\ i \in 1..Len(s)
    BY <1>1 DEF Split
  <2> QED
    BY <1>1, <2>1 DEF Split, After
<1>3. ASSUME NEW i \in 1..Len(Rest(s, j)) PROVE Rest(s, j)[i] = k + j + i
  <2>1. i \in 1..(Len(s) - j)
    BY <1>1 DEF Split
  <2>2. j + i \in 1..Len(s) /\ k + (j + i) = k + j + i
    BY <1>1, <2>1
  <2>3. Rest(s, j)[i] = s[j + i]
    BY <1>1, <2>1 DEF Split
  <2> QED
    BY <2>2, <2>3 DEF After
<1> QED
  BY <1>2, <1>3 DEF After

LEMMA AfterJoin ==
    ASSUME NEW S, NEW a \in Seq(S), NEW b \in Seq(S), NEW k \in Nat,
           After(k, a), After(k + Len(a), b)
    PROVE  After(k, a \o b)
<1>1. Joined(S, a, b) /\ Len(a) \in Nat /\ Len(b) \in Nat
  BY Concatenation, LenProperties
<1>2. ASSUME NEW i \in 1..Len(a \o b) PROVE (a \o b)[i] = k + i
  <2>1. CASE i \in 1..Len(a)
    BY <1>1, <2>1 DEF Joined, After
  <2>2. CASE ~(i \in 1..Len(a))
    <3>1. PICK j \in 1..Len(b) : Len(a) + j = i
      <4>1. i - Len(a) \in 1..Len(b) /\ Len(a) + (i - Len(a)) = i
        BY <1>1, <2>2 DEF Joined
      <4> QED
        BY <4>1
    <3>2. b[j] = k + Len(a) + j
      BY DEF After
    <3>3. k + Len(a) + j = k + i
      BY <1>1, <3>1
    <3> QED
      BY <1>1, <3>1, <3>2, <3>3 DEF Joined
  <2> QED
    BY <2>1, <2>2
<1> QED
  BY <1>2 DEF After

LEMMA AfterAppend ==
    ASSUME NEW S, NEW s \in Seq(S), NEW k \in Nat, NEW e \in S,
           After(k, s), e = k + Len(s) + 1
    PROVE  After(k, Append(s, e))
<1>1. Longer(S, s, e) /\ Len(s) \in Nat
  BY Appending, LenProperties
<1>2. ASSUME NEW i \in 1..Len(Append(s, e)) PROVE Append(s, e)[i] = k + i
  <2>1. CASE i \in 1..Len(s)
    BY <1>1, <2>1 DEF Longer, After
  <2>2. CASE i = Len(s) + 1
    BY <1>1, <2>2 DEF Longer
  <2> QED
    BY <1>1, <2>1, <2>2 DEF Longer
<1> QED
  BY <1>2 DEF After

LEMMA AfterTail ==
    ASSUME NEW S, NEW s \in Seq(S), NEW k \in Nat, After(k, s), s # <<>>
    PROVE  Head(s) = k + 1 /\ After(k + 1, Tail(s))
<1>1. Shorter(S, s) /\ Len(s) \in Nat
  BY HeadAndTail, LenProperties
<1>2. Head(s) = k + 1
  <2>1. 1 \in 1..Len(s)
    BY <1>1 DEF Shorter
  <2> QED
    BY <1>1, <2>1 DEF Shorter, After
<1>3. ASSUME NEW i \in 1..Len(Tail(s)) PROVE Tail(s)[i] = k + 1 + i
  <2>1. i \in 1..(Len(s) - 1) /\ i + 1 \in 1..Len(s) /\ k + (i + 1) = k + 1 + i
    BY <1>1 DEF Shorter
  <2> QED
    BY <1>1, <2>1 DEF Shorter, After
<1> QED
  BY <1>2, <1>3 DEF After

LEMMA AfterEmpty == ASSUME NEW k PROVE After(k, <<>>)
  BY DEF After

\* A unit is written.
Written(n, got, near, held, far) ==
    /\ InOrder(n + 1, got, near, held, Append(far, n + 1))
    /\ Total(got, near, held, Append(far, n + 1)) = n + 1

\* The copying thread, with nothing at hand, reads j units.
Taken(n, got, near, far, j) ==
    /\ InOrder(n, got, near, Front(far, j), Rest(far, j))
    /\ Total(got, near, Front(far, j), Rest(far, j)) = Total(got, near, <<>>, far)

\* It writes the first unit it has.
Passed(n, got, near, held, far) ==
    /\ InOrder(n, got, Append(near, Head(held)), Tail(held), far)
    /\ Total(got, Append(near, Head(held)), Tail(held), far) = Total(got, near, held, far)

\* The reading end takes j units.
Delivered(n, got, near, held, far, j) ==
    /\ InOrder(n, got \o Front(near, j), Rest(near, j), held, far)
    /\ Total(got \o Front(near, j), Rest(near, j), held, far) = Total(got, near, held, far)
    /\ Len(got \o Front(near, j)) = Len(got) + j

LEMMA MoveIn ==
    ASSUME NEW S, NEW got \in Seq(S), NEW near \in Seq(S), NEW held \in Seq(S),
           NEW far \in Seq(S), NEW n \in Nat, n + 1 \in S,
           InOrder(n, got, near, held, far), Total(got, near, held, far) = n
    PROVE  Written(n, got, near, held, far)
<1>1. Len(got) \in Nat /\ Len(near) \in Nat /\ Len(held) \in Nat /\ Len(far) \in Nat
  BY LenProperties
<1>2. PICK k \in Nat : k = Len(got) + Len(near) + Len(held)
  BY <1>1
<1>3. After(k, far) /\ n + 1 = k + Len(far) + 1
  BY <1>1, <1>2 DEF InOrder, Total
<1>4. After(k, Append(far, n + 1))
  BY <1>3, AfterAppend
<1>5. Longer(S, far, n + 1)
  <2>1. PICK e \in S : e = n + 1
    OBVIOUS
  <2>2. Longer(S, far, e)
    BY Appending
  <2> QED
    BY <2>1, <2>2
<1>6. Total(got, near, held, Append(far, n + 1)) = n + 1
  <2>1. PICK l : l = Append(far, n + 1)
    OBVIOUS
  <2>2. Len(l) = Len(far) + 1
    BY <1>5, <2>1 DEF Longer
  <2>3. Total(got, near, held, l) = k + Len(l)
    BY <1>2 DEF Total
  <2>4. k + (Len(far) + 1) = n + 1
    BY <1>1, <1>2, <1>3
  <2> QED
    BY <2>1, <2>2, <2>3, <2>4
<1>7. n + 1 <= n + 1
  OBVIOUS
<1> QED
  BY <1>2, <1>4, <1>6, <1>7 DEF InOrder, Written

LEMMA MoveToHand ==
    ASSUME NEW S, NEW got \in Seq(S), NEW near \in Seq(S), NEW far \in Seq(S), NEW n \in Nat,
           NEW j \in 0..Len(far), InOrder(n, got, near, <<>>, far)
    PROVE  Taken(n, got, near, far, j)
<1>1. Len(got) \in Nat /\ Len(near) \in Nat /\ Len(far) \in Nat /\ Len(<<>>) = 0 /\ j \in Nat
  BY LenProperties
<1>2. PICK k \in Nat : k = Len(got) + Len(near)
  BY <1>1
<1>3. k + 0 = k
  BY <1>2
<1>4. After(k, far)
  BY <1>1, <1>2, <1>3 DEF InOrder
<1>5. After(k, Front(far, j)) /\ After(k + j, Rest(far, j))
  BY <1>4, AfterSplit
<1>6. Split(S, far, j)
  BY FrontAndRest
<1>7. Len(Front(far, j)) = j /\ Len(Rest(far, j)) = Len(far) - j
  BY <1>6 DEF Split
<1>8. Total(got, near, Front(far, j), Rest(far, j)) = Total(got, near, <<>>, far)
  BY <1>1, <1>7 DEF Total
<1> QED
  BY <1>2, <1>5, <1>7, <1>8 DEF InOrder, Taken

LEMMA MoveOn ==
    ASSUME NEW S, NEW got \in Seq(S), NEW near \in Seq(S), NEW held \in Seq(S),
           NEW far \in Seq(S), NEW n \in Nat, held # <<>>, InOrder(n, got, near, held, far)
    PROVE  Passed(n, got, near, held, far)
<1>1. Len(got) \in Nat /\ Len(near) \in Nat /\ Len(held) \in Nat /\ Len(far) \in Nat
  BY LenProperties
<1>2. PICK g \in Nat : g = Len(got)
  BY <1>1
<1>3. PICK k \in Nat : k = g + Len(near)
  BY <1>1, <1>2
<1>4. After(g, near) /\ After(k, held) /\ After(k + Len(held), far)
  BY <1>2, <1>3 DEF InOrder
<1>5. Head(held) = k + 1 /\ After(k + 1, Tail(held))
  BY <1>4, AfterTail
<1>6. Shorter(S, held)
  BY HeadAndTail
<1>7. Head(held) \in S /\ Len(Tail(held)) = Len(held) - 1
  BY <1>6 DEF Shorter
<1>8. Len(Append(near, Head(held))) = Len(near) + 1
  BY <1>7, Appending DEF Longer
<1>9. Head(held) = g + Len(near) + 1
  BY <1>3, <1>5
<1>10. After(g, Append(near, Head(held)))
  BY <1>4, <1>7, <1>9, AfterAppend
<1>11. /\ g + (Len(near) + 1) = k + 1
       /\ g + (Len(near) + 1) + (Len(held) - 1) = k + Len(held)
  BY <1>1, <1>3
<1>12. Total(got, Append(near, Head(held)), Tail(held), far) = Total(got, near, held, far)
  BY <1>1, <1>7, <1>8 DEF Total
<1> QED
  BY <1>2, <1>4, <1>5, <1>7, <1>8, <1>10, <1>11, <1>12 DEF InOrder, Passed

LEMMA MoveOut ==
    ASSUME NEW S, NEW got \in Seq(S), NEW near \in Seq(S), NEW held \in Seq(S),
           NEW far \in Seq(S), NEW n \in Nat, NEW j \in 0..Len(near),
           InOrder(n, got, near, held, far)
    PROVE  Delivered(n, got, near, held, far, j)
<1>1. /\ Len(got) \in Nat /\ Len(near) \in Nat /\ Len(held) \in Nat /\ Len(far) \in Nat
      /\ j \in Nat
  BY LenProperties
<1>2. PICK g \in Nat : g = Len(got)
  BY <1>1
<1>3. After(0, got) /\ After(g, near)
  BY <1>2 DEF InOrder
<1>4. PICK f : f = Front(near, j)
  OBVIOUS
<1>5. Split(S, near, j)
  BY FrontAndRest
<1>6. f \in Seq(S) /\ Len(f) = j /\ Len(Rest(near, j)) = Len(near) - j
  BY <1>4, <1>5 DEF Split
<1>7. After(g, f) /\ After(g + j, Rest(near, j))
  BY <1>3, <1>4, AfterSplit
<1>8. 0 + Len(got) = g
  BY <1>2
<1>9. After(0, got \o f)
  BY <1>3, <1>6, <1>7, <1>8, AfterJoin
<1>10. Joined(S, got, f)
  BY <1>6, Concatenation
<1>11. Len(got \o f) = g + j
  BY <1>2, <1>6, <1>10 DEF Joined
<1>12. /\ g + j + (Len(near) - j) = g + Len(near)
       /\ g + j + (Len(near) - j) + Len(held) = g + Len(near) + Len(held)
  BY <1>1, <1>2
<1>13. Total(got \o f, Rest(near, j), held, far) = Total(got, near, held, far)
  BY <1>1, <1>2, <1>6, <1>11 DEF Total
<1>14. InOrder(n, got \o f, Rest(near, j), held, far)
  BY <1>2, <1>6, <1>7, <1>9, <1>11, <1>12, <1>13 DEF InOrder
<1> QED
  BY <1>2, <1>4, <1>11, <1>13, <1>14 DEF Delivered

\* What is in the first buffer is thrown away.
LEMMA DropFar ==
    ASSUME NEW S, NEW got \in Seq(S), NEW near \in Seq(S), NEW held \in Seq(S),
           NEW far \in Seq(S), NEW n \in Nat, InOrder(n, got, near, held, far)
    PROVE  InOrder(n, got, near, held, <<>>)
<1>1. Len(got) \in Nat /\ Len(near) \in Nat /\ Len(held) \in Nat /\ Len(far) \in Nat
      /\ Len(<<>>) = 0
  BY LenProperties
<1>2. Total(got, near, held, <<>>) <= n
  BY <1>1 DEF InOrder, Total
<1> QED
  BY <1>2, AfterEmpty DEF InOrder

\* All that was written has come out.
LEMMA AllOut ==
    ASSUME NEW S, NEW got \in Seq(S), NEW n \in Nat, InOrder(n, got, <<>>, <<>>, <<>>),
           Total(got, <<>>, <<>>, <<>>) = n
    PROVE  got = [i \in 1..n |-> i]
<1>1. Len(got) \in Nat /\ Len(<<>>) = 0
  BY LenProperties
<1>2. Len(got) = n
  BY <1>1 DEF Total
<1>3. got = [i \in 1..Len(got) |-> got[i]]
  BY LenProperties
<1>4. \A i \in 1..n : got[i] = i
  BY <1>2 DEF InOrder, After
<1> QED
  BY <1>2, <1>3, <1>4

-----------------------------------------------------------------------------
(* The initial state, and what a step leaves alone.                         *)

LEMMA InitInv == Init => IInv
<1> SUFFICES ASSUME Init PROVE IInv
  OBVIOUS
<1>1. MaxUnits \in Nat
  BY SizesAssumption
<1>2. <<>> \in Seq(1..MaxUnits) /\ 0 \in 0..MaxUnits
  BY <1>1
<1>3. EmptyFlow \in Flow
  BY <1>2 DEF EmptyFlow, Flow
<1>4. TypeOK
  <2>1. data \in [{"reader", "writer"} -> Seq(1..MaxUnits)]
    BY <1>2 DEF Init
  <2>2. polled \in [size : {Nil} \cup 0..MaxUnits, timedOut : BOOLEAN]
    BY <1>2 DEF Init
  <2>3. up \in Flow /\ down \in Flow
    BY <1>3 DEF Init
  <2> QED
    BY <2>1, <2>2, <2>3 DEF Init, TypeOK
<1>5. /\ data["reader"] = <<>> /\ data["writer"] = <<>>
      /\ up.sent = 0 /\ up.got = <<>> /\ up.channel = <<>> /\ up.socket = <<>>
      /\ down.sent = 0 /\ down.got = <<>> /\ down.channel = <<>> /\ down.socket = <<>>
  BY DEF Init, EmptyFlow
<1>6. Total(<<>>, <<>>, <<>>, <<>>) = 0
  BY DEF Total
<1>7. InOrder(0, <<>>, <<>>, <<>>, <<>>)
  BY <1>6, AfterEmpty DEF InOrder
<1>8. UpInOrder /\ DownInOrder
  BY <1>5, <1>6, <1>7 DEF UpInOrder, DownInOrder
<1>9. ReaderInv /\ WriterInv /\ ThreadInv
  BY <1>5 DEF Init, ReaderInv, WriterInv, ThreadInv
<1> QED
  BY <1>4, <1>8, <1>9 DEF IInv

LEMMA SameUp ==
    ASSUME UpInOrder, UNCHANGED up, data'["reader"] = data["reader"],
           client = "reset" => client' = "reset"
    PROVE  UpInOrder'
  BY DEF UpInOrder

LEMMA SameDown ==
    ASSUME DownInOrder, UNCHANGED down, data'["writer"] = data["writer"]
    PROVE  DownInOrder'
  BY DEF DownInOrder

\* The parts of the two flows.
FlowOf(n, got, socket, chan) ==
    [sent |-> n, socket |-> socket, channel |-> chan, got |-> got]

LEMMA FlowParts ==
    ASSUME NEW f \in Flow
    PROVE  /\ f = FlowOf(f.sent, f.got, f.socket, f.channel)
           /\ f.sent \in 0..MaxUnits /\ f.got \in Seq(1..MaxUnits)
           /\ f.socket \in Seq(1..MaxUnits) /\ f.channel \in Seq(1..MaxUnits)
  BY DEF Flow, FlowOf

LEMMA FlowType ==
    ASSUME NEW n \in 0..MaxUnits, NEW got \in Seq(1..MaxUnits),
           NEW socket \in Seq(1..MaxUnits), NEW chan \in Seq(1..MaxUnits)
    PROVE  FlowOf(n, got, socket, chan) \in Flow
  BY DEF Flow, FlowOf

\* No buffer holds more than was written.
LEMMA DownSize ==
    ASSUME TypeOK, DownInOrder
    PROVE  Len(down.channel) \in 0..MaxUnits
<1>1. PICK S : S = 1..MaxUnits
  OBVIOUS
<1>2. MaxUnits \in Nat /\ down.sent \in 0..MaxUnits /\ down.got \in Seq(S)
      /\ down.socket \in Seq(S) /\ down.channel \in Seq(S)
  BY <1>1, FlowParts, SizesAssumption DEF TypeOK
<1>3. data["writer"] \in Seq(S)
  BY <1>1 DEF TypeOK
<1>4. Len(down.got) \in Nat /\ Len(down.socket) \in Nat /\ Len(data["writer"]) \in Nat
      /\ Len(down.channel) \in Nat
  BY <1>2, <1>3, LenProperties
<1>5. Len(down.got) + Len(down.socket) + Len(data["writer"]) + Len(down.channel) <= down.sent
  BY DEF DownInOrder, InOrder, Total
<1>6. down.sent <= MaxUnits /\ down.sent \in Nat
  BY <1>2
<1>7. Len(down.channel) <= down.sent
  <2>1. PICK a \in Nat, b \in Nat, c \in Nat, d \in Nat, n \in Nat :
            /\ a = Len(down.got) /\ b = Len(down.socket) /\ c = Len(data["writer"])
            /\ d = Len(down.channel) /\ n = down.sent
    BY <1>4, <1>6
  <2>2. a + b + c + d <= n
    BY <1>5, <2>1
  <2>3. d <= n
    BY <2>2
  <2> QED
    BY <2>1, <2>3
<1> QED
  BY <1>2, <1>4, <1>6, <1>7

-----------------------------------------------------------------------------
(* The steps that move no units.                                            *)

\* The client, the service and the connection.
LEMMA EndsInv ==
    ASSUME IInv,
           \/ ClientConnect \/ ClientShut \/ RemoteSeesEof \/ RemoteEnds \/ ConnectionLost
    PROVE  IInv'
<1>0. TypeOK /\ UpInOrder /\ DownInOrder /\ ReaderInv /\ WriterInv /\ ThreadInv
  BY DEF IInv
<1>1. UNCHANGED <<main, thread, failing, reader, writer, data, polled, channel, up, down>>
  BY DEF ClientConnect, ClientShut, RemoteSeesEof, RemoteEnds, ConnectionLost,
     process, copying, ends
<1>2. client = "reset" => client' = "reset"
  BY DEF ClientConnect, ClientShut, RemoteSeesEof, RemoteEnds, ConnectionLost, ends
<1>3. UpInOrder' /\ DownInOrder'
  BY <1>0, <1>1, <1>2, SameUp, SameDown
<1>4. TypeOK'
  <2>1. /\ client' \in {client, "open", "shut"} /\ remote' \in {remote, "ended"}
        /\ remoteEof' = remoteEof \/ remoteEof' = TRUE
        /\ lost' = lost \/ lost' = TRUE
    BY DEF ClientConnect, ClientShut, RemoteSeesEof, RemoteEnds, ConnectionLost, ends
  <2>2. remoteEof' \in BOOLEAN /\ lost' \in BOOLEAN
    BY <1>0, <2>1 DEF TypeOK
  <2> QED
    BY <1>0, <1>1, <2>1, <2>2 DEF TypeOK
<1>5. ReaderInv' /\ WriterInv' /\ ThreadInv'
  BY <1>0, <1>1 DEF ClientConnect, ClientShut, RemoteSeesEof, RemoteEnds, ConnectionLost,
     ends, ReaderInv, WriterInv, ThreadInv
<1> QED
  BY <1>3, <1>4, <1>5 DEF IInv

\* The main thread and server_thread.
LEMMA ThreadsInv == ASSUME IInv, Main \/ ServerThread PROVE IInv'
<1>0. TypeOK /\ UpInOrder /\ DownInOrder /\ ReaderInv /\ WriterInv /\ ThreadInv
  BY DEF IInv
<1>1. UNCHANGED <<data, polled, client, remoteEof, lost, up, down>>
  BY DEF Main, MainWait, ClientExits, MainJoin, ServerThread, Listen, Signal, Accept,
     OpenForward, JoinReader, JoinWriter, Join, Close, copying, ends
<1>2. UpInOrder' /\ DownInOrder'
  BY <1>0, <1>1, SameUp, SameDown
<1>3. CASE Main \/ Signal
  BY <1>0, <1>1, <1>2, <1>3 DEF Main, MainWait, ClientExits, MainJoin, Signal, Advance,
     copying, ends, IInv, TypeOK, ReaderInv, WriterInv, ThreadInv
<1>4. CASE Listen \/ Accept
  <2>1. /\ thread \in {"listen", "accept"} /\ thread' \in {"signal", "dead", "open"}
        /\ UNCHANGED <<main, failing, reader, writer, remote, channel>>
    BY <1>4 DEF Listen, Accept, Advance, copying, ends
  <2>2. TypeOK'
    BY <1>0, <1>1, <2>1 DEF TypeOK
  <2>3. reader = "none" /\ writer = "none"
    BY <1>0, <2>1 DEF ThreadInv
  <2>4. ReaderInv' /\ WriterInv' /\ ThreadInv'
    BY <1>0, <1>1, <2>1, <2>3 DEF ReaderInv, WriterInv, ThreadInv
  <2> QED
    BY <1>2, <2>2, <2>4 DEF IInv
<1>5. CASE OpenForward
  BY <1>0, <1>1, <1>2, <1>5 DEF OpenForward, Advance,
     IInv, TypeOK, ReaderInv, WriterInv, ThreadInv
<1>6. CASE JoinReader \/ JoinWriter
  <2>1. /\ thread' \in {"join_writer", "close"} /\ (failing' = failing \/ failing' = TRUE)
        /\ UNCHANGED <<main, reader, writer, remote, channel>>
        /\ thread \in {"join_reader", "join_writer"}
        /\ thread' = "join_writer" => reader = "done"
        /\ thread = "join_reader" /\ thread' = "close" => reader = "dead"
        /\ thread' = "close" /\ ~failing' => thread = "join_writer" /\ writer = "done"
    BY <1>6 DEF JoinReader, JoinWriter, Join, Advance, copying, ends
  <2>5. failing' \in BOOLEAN
    BY <1>0, <2>1 DEF TypeOK
  <2>2. TypeOK'
    BY <1>0, <1>1, <2>1, <2>5 DEF TypeOK
  <2>3. ReaderInv' /\ WriterInv'
    BY <1>0, <1>1, <2>1 DEF ReaderInv, WriterInv
  <2>4. ThreadInv'
    BY <1>0, <1>1, <2>1 DEF ThreadInv
  <2> QED
    BY <1>2, <2>2, <2>3, <2>4 DEF IInv
<1>7. CASE Close
  <2>1. /\ thread = "close" /\ UNCHANGED <<main, failing, reader, writer, remote>>
        /\ \/ channel' = "closed" /\ thread' = IF failing THEN "dead" ELSE "done"
           \/ channel' = channel /\ thread' = "dead"
    BY <1>7 DEF Close, Advance, copying, ends
  <2>2. TypeOK'
    BY <1>0, <1>1, <2>1 DEF TypeOK
  <2>3. reader \in {"done", "dead"}
    BY <1>0, <2>1 DEF ThreadInv
  <2>4. ~failing => writer = "done" /\ remote = "ended" /\ down.channel = <<>>
    BY <1>0, <2>1 DEF ThreadInv, WriterInv
  <2>5. ReaderInv' /\ WriterInv'
    BY <1>0, <1>1, <2>1, <2>3 DEF ReaderInv, WriterInv
  <2>6. ThreadInv'
    BY <1>0, <1>1, <2>1, <2>4 DEF ThreadInv
  <2> QED
    BY <1>2, <2>2, <2>5, <2>6 DEF IInv
<1> QED
  BY <1>3, <1>4, <1>5, <1>6, <1>7 DEF ServerThread

\* What the copying threads do besides copying.
LEMMA CopiersInv ==
    ASSUME IInv, ReaderEnds \/ SendEof \/ Poll \/ WriterFails
    PROVE  IInv'
<1>0. TypeOK /\ UpInOrder /\ DownInOrder /\ ReaderInv /\ WriterInv /\ ThreadInv
  BY DEF IInv
<1>1. UNCHANGED <<main, thread, failing, data, client, remote, remoteEof, lost, up, down>>
  BY DEF ReaderEnds, SendEof, Poll, WriterFails, process, ends
<1>2. UpInOrder' /\ DownInOrder'
  BY <1>0, <1>1, SameUp, SameDown
<1>3. CASE ReaderEnds
  BY <1>0, <1>1, <1>2, <1>3 DEF ReaderEnds, ends, IInv, TypeOK, ReaderInv, WriterInv, ThreadInv
<1>4. CASE SendEof
  BY <1>0, <1>1, <1>2, <1>4 DEF SendEof, ends, IInv, TypeOK, ReaderInv, WriterInv, ThreadInv
<1>5. CASE WriterFails
  BY <1>0, <1>1, <1>2, <1>5 DEF WriterFails, ends, IInv, TypeOK, ReaderInv, WriterInv, ThreadInv
<1>6. CASE Poll
  <2>1. PICK rc \in {SSH_EOF} \cup 0..Capacity :
            /\ \/ rc > 0 /\ rc = Len(down.channel)
               \/ rc = SSH_EOF /\ down.channel = <<>> /\ NoMore
               \/ rc = 0 /\ down.channel = <<>> /\ ~NoMore /\ PollTimeout
            /\ Polled(PollResult(rc), rc = 0)
            /\ writer' = IF PollResult(rc) \in {Nil, SSH_EOF} THEN "done" ELSE "read"
    BY <1>6 DEF Poll
  <2>2. UNCHANGED <<reader, channel>> /\ writer = "poll" /\ data["writer"] = <<>>
    BY <1>0, <1>6 DEF Poll, ends, WriterInv
  <2>3. Len(down.channel) \in 0..MaxUnits
    BY <1>0, DownSize
  <2>4. CASE rc = SSH_EOF /\ down.channel = <<>> /\ NoMore
    <3>1. writer' = "done" /\ polled' = [size |-> Nil, timedOut |-> (rc = 0)]
      BY <2>1, <2>4 DEF PollResult, Polled
    <3> QED
      BY <1>0, <1>1, <1>2, <2>2, <2>4, <3>1
      DEF NoMore, IInv, TypeOK, ReaderInv, WriterInv, ThreadInv
  <2>5. CASE rc \in Nat /\ rc = Len(down.channel)
    <3>1. writer' = "read" /\ polled' = [size |-> rc, timedOut |-> (rc = 0)]
      BY <2>1, <2>5 DEF PollResult, Polled, Nil, SSH_EOF
    <3>2. polled'.size = rc /\ polled' \in [size : {Nil} \cup 0..MaxUnits, timedOut : BOOLEAN]
      BY <2>3, <2>5, <3>1
    <3>3. WriterInv'
      BY <1>0, <1>1, <2>2, <2>3, <2>5, <3>1, <3>2 DEF WriterInv
    <3> QED
      BY <1>0, <1>1, <1>2, <2>2, <3>1, <3>2, <3>3 DEF IInv, TypeOK, ReaderInv, ThreadInv
  <2> QED
    BY <2>1, <2>3, <2>4, <2>5 DEF SSH_EOF
<1> QED
  BY <1>3, <1>4, <1>5, <1>6

-----------------------------------------------------------------------------
(* The steps that move units.                                               *)

\* The sequences of the two flows.
LEMMA UpTypes ==
    ASSUME TypeOK
    PROVE  /\ up.sent \in 0..MaxUnits /\ up.sent \in Nat /\ MaxUnits \in Nat
           /\ up.got \in Seq(1..MaxUnits) /\ up.socket \in Seq(1..MaxUnits)
           /\ up.channel \in Seq(1..MaxUnits) /\ data["reader"] \in Seq(1..MaxUnits)
           /\ up = FlowOf(up.sent, up.got, up.socket, up.channel)
<1>1. MaxUnits \in Nat /\ up \in Flow
  BY SizesAssumption DEF TypeOK
<1>2. up.sent \in 0..MaxUnits
  BY <1>1, FlowParts
<1>3. data["reader"] \in Seq(1..MaxUnits)
  BY DEF TypeOK
<1>4. up.sent \in Nat
  BY <1>1, <1>2
<1> QED
  BY <1>1, <1>2, <1>3, <1>4, FlowParts

LEMMA DownTypes ==
    ASSUME TypeOK
    PROVE  /\ down.sent \in 0..MaxUnits /\ down.sent \in Nat /\ MaxUnits \in Nat
           /\ down.got \in Seq(1..MaxUnits) /\ down.socket \in Seq(1..MaxUnits)
           /\ down.channel \in Seq(1..MaxUnits) /\ data["writer"] \in Seq(1..MaxUnits)
           /\ down = FlowOf(down.sent, down.got, down.socket, down.channel)
<1>1. MaxUnits \in Nat /\ down \in Flow
  BY SizesAssumption DEF TypeOK
<1>2. down.sent \in 0..MaxUnits
  BY <1>1, FlowParts
<1>3. data["writer"] \in Seq(1..MaxUnits)
  BY DEF TypeOK
<1>4. down.sent \in Nat
  BY <1>1, <1>2
<1> QED
  BY <1>1, <1>2, <1>3, <1>4, FlowParts

LEMMA ClientWriteInv == ASSUME IInv, ClientWrite PROVE IInv'
<1>0. TypeOK /\ UpInOrder /\ DownInOrder /\ ReaderInv /\ WriterInv /\ ThreadInv
  BY DEF IInv
<1>1. /\ UNCHANGED <<main, thread, failing, reader, writer, data, polled, client, remote,
                     remoteEof, channel, lost, down>>
      /\ client = "open" /\ up.sent < MaxUnits
  BY DEF ClientWrite, process, copying, ends
<1>2. PICK n \in Nat : n = up.sent
  BY <1>0, UpTypes
<1>3. n + 1 \in 1..MaxUnits /\ n + 1 \in 0..MaxUnits
  BY <1>0, <1>1, <1>2, UpTypes
<1>4. up' = FlowOf(n + 1, up.got, Append(up.socket, n + 1), up.channel)
  BY <1>0, <1>2, UpTypes DEF ClientWrite, FlowOf
<1>5. /\ InOrder(n + 1, up.got, up.channel, data["reader"], Append(up.socket, n + 1))
      /\ Total(up.got, up.channel, data["reader"], Append(up.socket, n + 1)) = n + 1
  <2>1. /\ up.got \in Seq(1..MaxUnits) /\ up.socket \in Seq(1..MaxUnits)
        /\ up.channel \in Seq(1..MaxUnits) /\ data["reader"] \in Seq(1..MaxUnits)
    BY <1>0, UpTypes
  <2>2. /\ InOrder(n, up.got, up.channel, data["reader"], up.socket)
        /\ Total(up.got, up.channel, data["reader"], up.socket) = n
    BY <1>0, <1>1, <1>2 DEF UpInOrder
  <2>3. Written(n, up.got, up.channel, data["reader"], up.socket)
    BY <1>3, <2>1, <2>2, MoveIn
  <2> QED
    BY <2>3 DEF Written
<1>6. UpInOrder'
  BY <1>1, <1>4, <1>5 DEF UpInOrder, FlowOf
<1>7. up' \in Flow
  <2>1. Longer(1..MaxUnits, up.socket, n + 1)
    BY <1>0, <1>3, UpTypes, Appending
  <2>2. Append(up.socket, n + 1) \in Seq(1..MaxUnits)
    BY <2>1 DEF Longer
  <2> QED
    BY <1>0, <1>3, <1>4, <2>2, UpTypes, FlowType
<1>8. TypeOK' /\ DownInOrder'
  BY <1>0, <1>1, <1>7, SameDown DEF TypeOK
<1>9. ReaderInv' /\ WriterInv' /\ ThreadInv'
  BY <1>0, <1>1, <1>4 DEF ReaderInv, WriterInv, ThreadInv, FlowOf
<1> QED
  BY <1>6, <1>8, <1>9 DEF IInv

LEMMA RemoteWriteInv == ASSUME IInv, RemoteWrite PROVE IInv'
<1>0. TypeOK /\ UpInOrder /\ DownInOrder /\ ReaderInv /\ WriterInv /\ ThreadInv
  BY DEF IInv
<1>1. /\ UNCHANGED <<main, thread, failing, reader, writer, data, polled, client, remote,
                     remoteEof, channel, lost, up>>
      /\ remote = "open" /\ down.sent < MaxUnits
  BY DEF RemoteWrite, process, copying, ends
<1>2. PICK n \in Nat : n = down.sent
  BY <1>0, DownTypes
<1>3. n + 1 \in 1..MaxUnits /\ n + 1 \in 0..MaxUnits
  BY <1>0, <1>1, <1>2, DownTypes
<1>4. down' = FlowOf(n + 1, down.got, down.socket, Append(down.channel, n + 1))
  BY <1>0, <1>2, DownTypes DEF RemoteWrite, FlowOf
<1>5. /\ InOrder(n + 1, down.got, down.socket, data["writer"], Append(down.channel, n + 1))
      /\ Total(down.got, down.socket, data["writer"], Append(down.channel, n + 1)) = n + 1
  <2>1. /\ down.got \in Seq(1..MaxUnits) /\ down.socket \in Seq(1..MaxUnits)
        /\ down.channel \in Seq(1..MaxUnits) /\ data["writer"] \in Seq(1..MaxUnits)
    BY <1>0, DownTypes
  <2>2. /\ InOrder(n, down.got, down.socket, data["writer"], down.channel)
        /\ Total(down.got, down.socket, data["writer"], down.channel) = n
    BY <1>0, <1>2 DEF DownInOrder
  <2>3. Written(n, down.got, down.socket, data["writer"], down.channel)
    BY <1>3, <2>1, <2>2, MoveIn
  <2> QED
    BY <2>3 DEF Written
<1>6. DownInOrder'
  BY <1>1, <1>4, <1>5 DEF DownInOrder, FlowOf
<1>7. Longer(1..MaxUnits, down.channel, n + 1)
  BY <1>0, <1>3, DownTypes, Appending
<1>8. down' \in Flow
  <2>1. Append(down.channel, n + 1) \in Seq(1..MaxUnits)
    BY <1>7 DEF Longer
  <2> QED
    BY <1>0, <1>3, <1>4, <2>1, DownTypes, FlowType
<1>9. TypeOK' /\ UpInOrder'
  BY <1>0, <1>1, <1>8, SameUp DEF TypeOK
<1>10. ReaderInv' /\ ThreadInv'
  BY <1>0, <1>1 DEF ReaderInv, ThreadInv
<1>11. WriterInv'
  <2>1. Len(down'.channel) = Len(down.channel) + 1 /\ Len(down.channel) \in Nat
    BY <1>0, <1>4, <1>7, DownTypes, LenProperties DEF Longer, FlowOf
  <2>2. writer = "read" => polled.size \in 0..Len(down'.channel)
    BY <1>0, <2>1 DEF WriterInv
  <2> QED
    BY <1>0, <1>1, <2>2 DEF WriterInv
<1> QED
  BY <1>6, <1>9, <1>10, <1>11 DEF IInv

LEMMA ClientReadInv == ASSUME IInv, ClientRead PROVE IInv'
<1>0. TypeOK /\ UpInOrder /\ DownInOrder /\ ReaderInv /\ WriterInv /\ ThreadInv
  BY DEF IInv
<1>1. UNCHANGED <<main, thread, failing, reader, writer, data, polled, client, remote,
                  remoteEof, channel, lost, up>>
  BY DEF ClientRead, process, copying, ends
<1>2. PICK k \in Chunk(down.socket) :
          down' = [down EXCEPT !.socket = Rest(@, k), !.got = @ \o Front(down.socket, k)]
  BY DEF ClientRead
<1>3. /\ down.got \in Seq(1..MaxUnits) /\ down.socket \in Seq(1..MaxUnits)
      /\ down.channel \in Seq(1..MaxUnits) /\ data["writer"] \in Seq(1..MaxUnits)
      /\ down.sent \in Nat
  BY <1>0, DownTypes
<1>4. k \in 0..Len(down.socket)
  BY <1>2, <1>3, LenProperties, SizesAssumption DEF Chunk
<1>5. down' = FlowOf(down.sent, down.got \o Front(down.socket, k), Rest(down.socket, k),
                     down.channel)
  BY <1>0, <1>2, DownTypes DEF FlowOf
<1>6. /\ InOrder(down.sent, down.got \o Front(down.socket, k), Rest(down.socket, k),
                 data["writer"], down.channel)
      /\ Total(down.got \o Front(down.socket, k), Rest(down.socket, k), data["writer"],
               down.channel) = down.sent
  <2>1. InOrder(down.sent, down.got, down.socket, data["writer"], down.channel)
    BY <1>0 DEF DownInOrder
  <2>2. Total(down.got, down.socket, data["writer"], down.channel) = down.sent
    BY <1>0 DEF DownInOrder
  <2>3. Delivered(down.sent, down.got, down.socket, data["writer"], down.channel, k)
    BY <1>3, <1>4, <2>1, MoveOut
  <2> QED
    BY <2>2, <2>3 DEF Delivered
<1>7. DownInOrder'
  BY <1>1, <1>5, <1>6 DEF DownInOrder, FlowOf
<1>8. down' \in Flow
  <2>1. Split(1..MaxUnits, down.socket, k)
    BY <1>3, <1>4, FrontAndRest
  <2>2. Front(down.socket, k) \in Seq(1..MaxUnits) /\ Rest(down.socket, k) \in Seq(1..MaxUnits)
    BY <2>1 DEF Split
  <2>3. Joined(1..MaxUnits, down.got, Front(down.socket, k))
    BY <1>3, <2>2, Concatenation
  <2>4. down.got \o Front(down.socket, k) \in Seq(1..MaxUnits)
    BY <2>3 DEF Joined
  <2> QED
    BY <1>0, <1>3, <1>5, <2>2, <2>4, DownTypes, FlowType
<1>9. TypeOK' /\ UpInOrder'
  BY <1>0, <1>1, <1>8, SameUp DEF TypeOK
<1>10. ReaderInv' /\ WriterInv' /\ ThreadInv'
  BY <1>0, <1>1, <1>5 DEF ReaderInv, WriterInv, ThreadInv, FlowOf
<1> QED
  BY <1>7, <1>9, <1>10 DEF IInv

LEMMA RemoteReadInv == ASSUME IInv, RemoteRead PROVE IInv'
<1>0. TypeOK /\ UpInOrder /\ DownInOrder /\ ReaderInv /\ WriterInv /\ ThreadInv
  BY DEF IInv
<1>1. UNCHANGED <<main, thread, failing, reader, writer, data, polled, client, remote,
                  remoteEof, channel, lost, down>>
  BY DEF RemoteRead, process, copying, ends
<1>2. PICK k \in Chunk(up.channel) :
          up' = [up EXCEPT !.channel = Rest(@, k), !.got = @ \o Front(up.channel, k)]
  BY DEF RemoteRead
<1>3. /\ up.got \in Seq(1..MaxUnits) /\ up.socket \in Seq(1..MaxUnits)
      /\ up.channel \in Seq(1..MaxUnits) /\ data["reader"] \in Seq(1..MaxUnits)
      /\ up.sent \in Nat
  BY <1>0, UpTypes
<1>4. k \in 0..Len(up.channel) /\ Len(up.channel) # 0
  BY <1>2, <1>3, LenProperties, SizesAssumption DEF Chunk
<1>5. up' = FlowOf(up.sent, up.got \o Front(up.channel, k), up.socket, Rest(up.channel, k))
  BY <1>0, <1>2, UpTypes DEF FlowOf
<1>6. UpInOrder'
  <2>1. InOrder(up.sent, up.got, up.channel, data["reader"], up.socket)
    BY <1>0 DEF UpInOrder
  <2>2. Delivered(up.sent, up.got, up.channel, data["reader"], up.socket, k)
    BY <1>3, <1>4, <2>1, MoveOut
  <2>3. client # "reset" =>
            Total(up.got \o Front(up.channel, k), Rest(up.channel, k), data["reader"], up.socket)
                = up.sent
    BY <1>0, <2>2 DEF Delivered, UpInOrder
  <2>4. InOrder(up.sent, up.got \o Front(up.channel, k), Rest(up.channel, k), data["reader"],
                up.socket)
    BY <2>2 DEF Delivered
  <2> QED
    BY <1>1, <1>5, <2>3, <2>4 DEF UpInOrder, FlowOf
<1>7. up' \in Flow
  <2>1. Split(1..MaxUnits, up.channel, k)
    BY <1>3, <1>4, FrontAndRest
  <2>2. Front(up.channel, k) \in Seq(1..MaxUnits) /\ Rest(up.channel, k) \in Seq(1..MaxUnits)
    BY <2>1 DEF Split
  <2>3. Joined(1..MaxUnits, up.got, Front(up.channel, k))
    BY <1>3, <2>2, Concatenation
  <2>4. up.got \o Front(up.channel, k) \in Seq(1..MaxUnits)
    BY <2>3 DEF Joined
  <2> QED
    BY <1>0, <1>3, <1>5, <2>2, <2>4, UpTypes, FlowType
<1>8. TypeOK' /\ DownInOrder'
  BY <1>0, <1>1, <1>7, SameDown DEF TypeOK
<1>9. ~remoteEof
  <2>1. up.channel # <<>>
    BY <1>4
  <2> QED
    BY <1>0, <2>1 DEF ReaderInv
<1>10. ReaderInv' /\ WriterInv' /\ ThreadInv'
  BY <1>0, <1>1, <1>5, <1>9 DEF ReaderInv, WriterInv, ThreadInv, FlowOf
<1> QED
  BY <1>6, <1>8, <1>10 DEF IInv

LEMMA ClientLeaveInv == ASSUME IInv, ClientLeave PROVE IInv'
<1>0. TypeOK /\ UpInOrder /\ DownInOrder /\ ReaderInv /\ WriterInv /\ ThreadInv
  BY DEF IInv
<1>1. /\ UNCHANGED <<main, thread, failing, reader, writer, data, polled, remote,
                     remoteEof, channel, lost, down>>
      /\ client \in {"open", "shut"}
  BY DEF ClientLeave, Connected, process, copying
<1>2. DownInOrder'
  BY <1>0, <1>1, SameDown
<1>3. CASE client' = "closed" /\ UNCHANGED up
  <2>1. TypeOK'
    BY <1>0, <1>1, <1>3 DEF TypeOK
  <2>2. UpInOrder'
    BY <1>0, <1>1, <1>3, SameUp
  <2>3. ReaderInv' /\ WriterInv' /\ ThreadInv'
    BY <1>0, <1>1, <1>3 DEF ReaderInv, WriterInv, ThreadInv
  <2> QED
    BY <1>2, <2>1, <2>2, <2>3 DEF IInv
<1>4. CASE client' = "reset" /\ up' = [up EXCEPT !.socket = <<>>]
  <2>1. up' = FlowOf(up.sent, up.got, <<>>, up.channel)
    BY <1>0, <1>4, UpTypes DEF FlowOf
  <2>2. <<>> \in Seq(1..MaxUnits)
    OBVIOUS
  <2>3. up' \in Flow
    BY <1>0, <2>1, <2>2, UpTypes, FlowType
  <2>4. TypeOK'
    BY <1>0, <1>1, <1>4, <2>3 DEF TypeOK
  <2>5. InOrder(up.sent, up.got, up.channel, data["reader"], <<>>)
    <3>1. InOrder(up.sent, up.got, up.channel, data["reader"], up.socket)
      BY <1>0 DEF UpInOrder
    <3> QED
      BY <1>0, <3>1, UpTypes, DropFar
  <2>6. UpInOrder'
    BY <1>1, <1>4, <2>1, <2>5 DEF UpInOrder, FlowOf
  <2>7. ReaderInv' /\ WriterInv' /\ ThreadInv'
    BY <1>0, <1>1, <1>4, <2>1 DEF ReaderInv, WriterInv, ThreadInv, FlowOf
  <2> QED
    BY <1>2, <2>4, <2>6, <2>7 DEF IInv
<1> QED
  BY <1>3, <1>4 DEF ClientLeave

LEMMA ReaderReadInv == ASSUME IInv, ReaderRead PROVE IInv'
<1>0. TypeOK /\ UpInOrder /\ DownInOrder /\ ReaderInv /\ WriterInv /\ ThreadInv
  BY DEF IInv
<1>1. /\ UNCHANGED <<main, thread, failing, writer, polled, client, remote,
                     remoteEof, channel, lost, down>>
      /\ reader = "read" /\ reader' = "write" /\ data["reader"] = <<>>
  BY <1>0 DEF ReaderRead, process, ends, ReaderInv
<1>2. PICK k \in Chunk(up.socket) :
          /\ data' = [data EXCEPT !["reader"] = Front(up.socket, k)]
          /\ up' = [up EXCEPT !.socket = Rest(@, k)]
  BY DEF ReaderRead
<1>3. /\ up.got \in Seq(1..MaxUnits) /\ up.socket \in Seq(1..MaxUnits)
      /\ up.channel \in Seq(1..MaxUnits) /\ up.sent \in Nat
  BY <1>0, UpTypes
<1>4. k \in 0..Len(up.socket) /\ Len(up.socket) # 0
  BY <1>2, <1>3, LenProperties, SizesAssumption DEF Chunk
<1>5. up' = FlowOf(up.sent, up.got, Rest(up.socket, k), up.channel)
  BY <1>0, <1>2, UpTypes DEF FlowOf
<1>6. data'["reader"] = Front(up.socket, k) /\ data'["writer"] = data["writer"]
  BY <1>0, <1>2 DEF TypeOK
<1>7. UpInOrder'
  <2>1. InOrder(up.sent, up.got, up.channel, <<>>, up.socket)
    BY <1>0, <1>1 DEF UpInOrder
  <2>2. Taken(up.sent, up.got, up.channel, up.socket, k)
    BY <1>3, <1>4, <2>1, MoveToHand
  <2>3. client # "reset" =>
            Total(up.got, up.channel, Front(up.socket, k), Rest(up.socket, k)) = up.sent
    BY <1>0, <1>1, <2>2 DEF Taken, UpInOrder
  <2>4. InOrder(up.sent, up.got, up.channel, Front(up.socket, k), Rest(up.socket, k))
    BY <2>2 DEF Taken
  <2> QED
    BY <1>1, <1>5, <1>6, <2>3, <2>4 DEF UpInOrder, FlowOf
<1>8. Front(up.socket, k) \in Seq(1..MaxUnits) /\ Rest(up.socket, k) \in Seq(1..MaxUnits)
  <2>1. Split(1..MaxUnits, up.socket, k)
    BY <1>3, <1>4, FrontAndRest
  <2> QED
    BY <2>1 DEF Split
<1>9. up' \in Flow
  BY <1>0, <1>5, <1>8, UpTypes, FlowType
<1>10. data' \in [{"reader", "writer"} -> Seq(1..MaxUnits)]
  BY <1>0, <1>2, <1>8 DEF TypeOK
<1>11. TypeOK' /\ DownInOrder'
  BY <1>0, <1>1, <1>6, <1>9, <1>10, SameDown DEF TypeOK
<1>12. client # "reset"
  <2>1. up.socket # <<>>
    BY <1>4
  <2> QED
    BY <1>0, <2>1 DEF ReaderInv
<1>13. ReaderInv' /\ WriterInv' /\ ThreadInv'
  BY <1>0, <1>1, <1>5, <1>6, <1>12 DEF ReaderInv, WriterInv, ThreadInv, FlowOf
<1> QED
  BY <1>7, <1>11, <1>13 DEF IInv

LEMMA WriterReadInv == ASSUME IInv, WriterRead PROVE IInv'
<1>0. TypeOK /\ UpInOrder /\ DownInOrder /\ ReaderInv /\ WriterInv /\ ThreadInv
  BY DEF IInv
<1>1. /\ UNCHANGED <<main, thread, failing, reader, polled, client, remote,
                     remoteEof, channel, lost, up>>
      /\ writer = "read" /\ writer' = "write" /\ data["writer"] = <<>>
      /\ polled.size \in 0..Len(down.channel)
  BY <1>0 DEF WriterRead, process, ends, WriterInv
<1>2. PICK k \in 0..polled.size :
          /\ data' = [data EXCEPT !["writer"] = Front(down.channel, k)]
          /\ down' = [down EXCEPT !.channel = Rest(@, k)]
  BY DEF WriterRead
<1>3. /\ down.got \in Seq(1..MaxUnits) /\ down.socket \in Seq(1..MaxUnits)
      /\ down.channel \in Seq(1..MaxUnits) /\ down.sent \in Nat
  BY <1>0, DownTypes
<1>4. k \in 0..Len(down.channel)
  BY <1>1, <1>2, <1>3, LenProperties
<1>5. down' = FlowOf(down.sent, down.got, down.socket, Rest(down.channel, k))
  BY <1>0, <1>2, DownTypes DEF FlowOf
<1>6. data'["writer"] = Front(down.channel, k) /\ data'["reader"] = data["reader"]
  BY <1>0, <1>2 DEF TypeOK
<1>7. DownInOrder'
  <2>1. InOrder(down.sent, down.got, down.socket, <<>>, down.channel)
    BY <1>0, <1>1 DEF DownInOrder
  <2>2. Taken(down.sent, down.got, down.socket, down.channel, k)
    BY <1>3, <1>4, <2>1, MoveToHand
  <2>3. Total(down.got, down.socket, Front(down.channel, k), Rest(down.channel, k)) = down.sent
    BY <1>0, <1>1, <2>2 DEF Taken, DownInOrder
  <2>4. InOrder(down.sent, down.got, down.socket, Front(down.channel, k), Rest(down.channel, k))
    BY <2>2 DEF Taken
  <2> QED
    BY <1>1, <1>5, <1>6, <2>3, <2>4 DEF DownInOrder, FlowOf
<1>8. Front(down.channel, k) \in Seq(1..MaxUnits) /\ Rest(down.channel, k) \in Seq(1..MaxUnits)
  <2>1. Split(1..MaxUnits, down.channel, k)
    BY <1>3, <1>4, FrontAndRest
  <2> QED
    BY <2>1 DEF Split
<1>9. down' \in Flow
  BY <1>0, <1>5, <1>8, DownTypes, FlowType
<1>10. data' \in [{"reader", "writer"} -> Seq(1..MaxUnits)]
  BY <1>0, <1>2, <1>8 DEF TypeOK
<1>11. TypeOK' /\ UpInOrder'
  BY <1>0, <1>1, <1>6, <1>9, <1>10, SameUp DEF TypeOK
<1>12. ReaderInv' /\ WriterInv' /\ ThreadInv'
  BY <1>0, <1>1, <1>6 DEF ReaderInv, WriterInv, ThreadInv
<1> QED
  BY <1>7, <1>11, <1>12 DEF IInv

LEMMA ReaderWriteInv == ASSUME IInv, ReaderWrite PROVE IInv'
<1>0. TypeOK /\ UpInOrder /\ DownInOrder /\ ReaderInv /\ WriterInv /\ ThreadInv
  BY DEF IInv
<1>1. /\ UNCHANGED <<main, thread, failing, writer, polled, client, remote,
                     remoteEof, channel, lost, down>>
      /\ reader = "write"
  BY DEF ReaderWrite, process, ends
<1>2. CASE /\ UNCHANGED <<up, data>>
           /\ \/ data["reader"] = <<>> /\ reader' = "read"
              \/ (lost \/ remote = "ended") /\ reader' = "dead"
  <2>1. TypeOK'
    BY <1>0, <1>1, <1>2 DEF TypeOK
  <2>2. UpInOrder' /\ DownInOrder'
    BY <1>0, <1>1, <1>2, SameUp, SameDown
  <2>3. ReaderInv' /\ WriterInv' /\ ThreadInv'
    BY <1>0, <1>1, <1>2 DEF ReaderInv, WriterInv, ThreadInv
  <2> QED
    BY <2>1, <2>2, <2>3 DEF IInv
<1>3. CASE /\ data["reader"] # <<>> /\ UNCHANGED reader
           /\ up' = [up EXCEPT !.channel = Append(@, Head(data["reader"]))]
           /\ data' = [data EXCEPT !["reader"] = Tail(@)]
  <2>1. /\ up.got \in Seq(1..MaxUnits) /\ up.socket \in Seq(1..MaxUnits)
        /\ up.channel \in Seq(1..MaxUnits) /\ data["reader"] \in Seq(1..MaxUnits)
        /\ up.sent \in Nat
    BY <1>0, UpTypes
  <2>2. up' = FlowOf(up.sent, up.got, up.socket, Append(up.channel, Head(data["reader"])))
    BY <1>0, <1>3, UpTypes DEF FlowOf
  <2>3. data'["reader"] = Tail(data["reader"]) /\ data'["writer"] = data["writer"]
    BY <1>0, <1>3 DEF TypeOK
  <2>4. Head(data["reader"]) \in 1..MaxUnits /\ Tail(data["reader"]) \in Seq(1..MaxUnits)
    <3>1. Shorter(1..MaxUnits, data["reader"])
      BY <1>3, <2>1, HeadAndTail
    <3> QED
      BY <3>1 DEF Shorter
  <2>5. UpInOrder'
    <3>1. InOrder(up.sent, up.got, up.channel, data["reader"], up.socket)
      BY <1>0 DEF UpInOrder
    <3>2. Passed(up.sent, up.got, up.channel, data["reader"], up.socket)
      BY <1>3, <2>1, <3>1, MoveOn
    <3>3. client # "reset" =>
              Total(up.got, Append(up.channel, Head(data["reader"])), Tail(data["reader"]),
                    up.socket) = up.sent
      BY <1>0, <3>2 DEF Passed, UpInOrder
    <3>4. InOrder(up.sent, up.got, Append(up.channel, Head(data["reader"])),
                  Tail(data["reader"]), up.socket)
      BY <3>2 DEF Passed
    <3> QED
      BY <1>1, <2>2, <2>3, <3>3, <3>4 DEF UpInOrder, FlowOf
  <2>6. up' \in Flow
    <3>1. Longer(1..MaxUnits, up.channel, Head(data["reader"]))
      BY <2>1, <2>4, Appending
    <3>2. Append(up.channel, Head(data["reader"])) \in Seq(1..MaxUnits)
      BY <3>1 DEF Longer
    <3> QED
      BY <1>0, <2>2, <3>2, UpTypes, FlowType
  <2>7. data' \in [{"reader", "writer"} -> Seq(1..MaxUnits)]
    BY <1>0, <1>3, <2>4 DEF TypeOK
  <2>8. TypeOK' /\ DownInOrder'
    BY <1>0, <1>1, <1>3, <2>3, <2>6, <2>7, SameDown DEF TypeOK
  <2>9. ReaderInv' /\ WriterInv' /\ ThreadInv'
    BY <1>0, <1>1, <1>3, <2>2, <2>3 DEF ReaderInv, WriterInv, ThreadInv, FlowOf
  <2> QED
    BY <2>5, <2>8, <2>9 DEF IInv
<1> QED
  BY <1>2, <1>3 DEF ReaderWrite

LEMMA WriterWriteInv == ASSUME IInv, WriterWrite PROVE IInv'
<1>0. TypeOK /\ UpInOrder /\ DownInOrder /\ ReaderInv /\ WriterInv /\ ThreadInv
  BY DEF IInv
<1>1. /\ UNCHANGED <<main, thread, failing, reader, polled, client, remote,
                     remoteEof, channel, lost, up>>
      /\ writer = "write"
  BY DEF WriterWrite, process, ends
<1>2. CASE /\ UNCHANGED <<down, data>>
           /\ (data["writer"] = <<>> /\ writer' = "poll") \/ writer' = "dead"
  <2>1. TypeOK'
    BY <1>0, <1>1, <1>2 DEF TypeOK
  <2>2. UpInOrder' /\ DownInOrder'
    BY <1>0, <1>1, <1>2, SameUp, SameDown
  <2>3. ReaderInv' /\ WriterInv' /\ ThreadInv'
    BY <1>0, <1>1, <1>2 DEF ReaderInv, WriterInv, ThreadInv
  <2> QED
    BY <2>1, <2>2, <2>3 DEF IInv
<1>3. CASE /\ data["writer"] # <<>> /\ UNCHANGED writer
           /\ down' = [down EXCEPT !.socket = Append(@, Head(data["writer"]))]
           /\ data' = [data EXCEPT !["writer"] = Tail(@)]
  <2>1. /\ down.got \in Seq(1..MaxUnits) /\ down.socket \in Seq(1..MaxUnits)
        /\ down.channel \in Seq(1..MaxUnits) /\ data["writer"] \in Seq(1..MaxUnits)
        /\ down.sent \in Nat
    BY <1>0, DownTypes
  <2>2. down' = FlowOf(down.sent, down.got, Append(down.socket, Head(data["writer"])),
                       down.channel)
    BY <1>0, <1>3, DownTypes DEF FlowOf
  <2>3. data'["writer"] = Tail(data["writer"]) /\ data'["reader"] = data["reader"]
    BY <1>0, <1>3 DEF TypeOK
  <2>4. Head(data["writer"]) \in 1..MaxUnits /\ Tail(data["writer"]) \in Seq(1..MaxUnits)
    <3>1. Shorter(1..MaxUnits, data["writer"])
      BY <1>3, <2>1, HeadAndTail
    <3> QED
      BY <3>1 DEF Shorter
  <2>5. DownInOrder'
    <3>1. InOrder(down.sent, down.got, down.socket, data["writer"], down.channel)
      BY <1>0 DEF DownInOrder
    <3>2. Passed(down.sent, down.got, down.socket, data["writer"], down.channel)
      BY <1>3, <2>1, <3>1, MoveOn
    <3>3. Total(down.got, Append(down.socket, Head(data["writer"])), Tail(data["writer"]),
                down.channel) = down.sent
      BY <1>0, <3>2 DEF Passed, DownInOrder
    <3>4. InOrder(down.sent, down.got, Append(down.socket, Head(data["writer"])),
                  Tail(data["writer"]), down.channel)
      BY <3>2 DEF Passed
    <3> QED
      BY <1>1, <2>2, <2>3, <3>3, <3>4 DEF DownInOrder, FlowOf
  <2>6. down' \in Flow
    <3>1. Longer(1..MaxUnits, down.socket, Head(data["writer"]))
      BY <2>1, <2>4, Appending
    <3>2. Append(down.socket, Head(data["writer"])) \in Seq(1..MaxUnits)
      BY <3>1 DEF Longer
    <3> QED
      BY <1>0, <2>2, <3>2, DownTypes, FlowType
  <2>7. data' \in [{"reader", "writer"} -> Seq(1..MaxUnits)]
    BY <1>0, <1>3, <2>4 DEF TypeOK
  <2>8. TypeOK' /\ UpInOrder'
    BY <1>0, <1>1, <1>3, <2>3, <2>6, <2>7, SameUp DEF TypeOK
  <2>9. ReaderInv' /\ WriterInv' /\ ThreadInv'
    BY <1>0, <1>1, <1>3, <2>2, <2>3 DEF ReaderInv, WriterInv, ThreadInv, FlowOf
  <2> QED
    BY <2>5, <2>8, <2>9 DEF IInv
<1> QED
  BY <1>2, <1>3 DEF WriterWrite

LEMMA NextInv == IInv /\ [Next]_vars => IInv'
<1> SUFFICES ASSUME IInv, [Next]_vars PROVE IInv'
  OBVIOUS
<1>1. CASE UNCHANGED vars
  <2>1. UNCHANGED <<main, thread, failing, reader, writer, data, polled, client, remote,
                    remoteEof, channel, lost, up, down>>
    BY <1>1 DEF vars, process, copying, ends
  <2> QED
    BY <2>1 DEF IInv, TypeOK, UpInOrder, DownInOrder, ReaderInv, WriterInv, ThreadInv
<1>2. CASE Outside
  BY <1>2, EndsInv, ClientWriteInv, ClientReadInv, ClientLeaveInv, RemoteWriteInv, RemoteReadInv
  DEF Outside
<1>3. CASE Main \/ ServerThread
  BY <1>3, ThreadsInv
<1>4. CASE Reader \/ Writer
  BY <1>4, CopiersInv, ReaderReadInv, ReaderWriteInv, WriterReadInv, WriterWriteInv
  DEF Reader, Writer
<1> QED
  BY <1>1, <1>2, <1>3, <1>4 DEF Next, Done

-----------------------------------------------------------------------------
(* The theorems.                                                            *)

\* The types of LocalForward hold: no buffer and no thread ever holds more than
\* was written, and what poll returns is a number of units or nil.
THEOREM TypeCorrect == Spec => []TypeOK
<1>1. IInv => TypeOK
  BY DEF IInv
<1> QED
  BY InitInv, NextInv, <1>1, PTL DEF Spec

\* When server_thread ends without an exception, no unit is left in the
\* channel, in the copying threads, or unread in the socket.
THEOREM EndsRelayed == Spec => []DoneMeansRelayed
<1>1. IInv => DoneMeansRelayed
  BY DEF IInv, ReaderInv, WriterInv, ThreadInv, DoneMeansRelayed
<1> QED
  BY InitInv, NextInv, <1>1, PTL DEF Spec

-----------------------------------------------------------------------------
(* Each direction is a Pipe.                                                *)

\* What has come out: the first units of what was written.
Out(n, got) == Len(got) \in 0..n /\ got = [i \in 1..Len(got) |-> i]

UpOut   == Out(up.sent, up.got)
DownOut == Out(down.sent, down.got)

LEMMA InOrderOut ==
    ASSUME NEW S, NEW got \in Seq(S), NEW near \in Seq(S), NEW held \in Seq(S),
           NEW far \in Seq(S), NEW n \in Nat, InOrder(n, got, near, held, far)
    PROVE  Out(n, got)
<1>1. Len(got) \in Nat /\ Len(near) \in Nat /\ Len(held) \in Nat /\ Len(far) \in Nat
  BY LenProperties
<1>2. Len(got) <= n
  BY <1>1 DEF InOrder, Total
<1>3. got = [i \in 1..Len(got) |-> got[i]]
  BY LenProperties
<1>4. \A i \in 1..Len(got) : got[i] = i
  BY <1>1 DEF InOrder, After
<1> QED
  BY <1>1, <1>2, <1>3, <1>4 DEF Out

LEMMA InvOut == IInv => UpOut /\ DownOut
<1> SUFFICES ASSUME IInv PROVE UpOut /\ DownOut
  OBVIOUS
<1>1. TypeOK /\ InOrder(up.sent, up.got, up.channel, data["reader"], up.socket)
      /\ InOrder(down.sent, down.got, down.socket, data["writer"], down.channel)
  BY DEF IInv, UpInOrder, DownInOrder
<1>2. UpOut
  BY <1>1, UpTypes, InOrderOut DEF UpOut
<1>3. DownOut
  BY <1>1, DownTypes, InOrderOut DEF DownOut
<1> QED
  BY <1>2, <1>3

\* A read of one unit or more makes what has come out longer.
LEMMA ReadGrows ==
    ASSUME NEW S, NEW got \in Seq(S), NEW near \in Seq(S), NEW k \in Chunk(near)
    PROVE  Len(got \o Front(near, k)) > Len(got)
<1>1. k \in 1..Len(near) /\ k \in 0..Len(near) /\ Len(got) \in Nat
  BY LenProperties, SizesAssumption DEF Chunk
<1>2. Split(S, near, k)
  BY <1>1, FrontAndRest
<1>3. Front(near, k) \in Seq(S) /\ Len(Front(near, k)) = k
  BY <1>2 DEF Split
<1>4. Joined(S, got, Front(near, k))
  BY <1>3, Concatenation
<1>5. Len(got \o Front(near, k)) = Len(got) + k
  BY <1>3, <1>4 DEF Joined
<1> QED
  BY <1>1, <1>5

\* What a step of the forwarding leaves alone in one direction.
LEMMA UpStutters ==
    ASSUME UNCHANGED <<up.sent, up.got, client, remoteEof>>
    PROVE  UNCHANGED Up!pvars
  BY DEF Up!pvars

LEMMA DownStutters ==
    ASSUME UNCHANGED <<down.sent, down.got>>
    PROVE  UNCHANGED Down!pvars
  BY DEF Down!pvars

LEMMA UpRemoteRead ==
    ASSUME IInv, UpOut', RemoteRead
    PROVE  Up!PRead
<1>0. TypeOK /\ ReaderInv
  BY DEF IInv
<1>1. UNCHANGED <<client, remoteEof>>
  BY DEF RemoteRead, ends
<1>2. PICK k \in Chunk(up.channel) :
          up' = [up EXCEPT !.channel = Rest(@, k), !.got = @ \o Front(up.channel, k)]
  BY DEF RemoteRead
<1>3. up.got \in Seq(1..MaxUnits) /\ up.channel \in Seq(1..MaxUnits) /\ up.sent \in Nat
  BY <1>0, UpTypes
<1>4. up.sent' = up.sent /\ up.got' = up.got \o Front(up.channel, k)
  <2>1. up' = FlowOf(up.sent, up.got \o Front(up.channel, k), up.socket, Rest(up.channel, k))
    BY <1>0, <1>2, UpTypes DEF FlowOf
  <2> QED
    BY <2>1 DEF FlowOf
<1>5. Len(up.got') > Len(up.got)
  BY <1>2, <1>3, <1>4, ReadGrows
<1>6. PICK n : n = Len(up.got')
  OBVIOUS
<1>7. n \in 0..up.sent /\ up.got' = Up!Units(n)
  BY <1>4, <1>6 DEF UpOut, Out, Up!Units
<1>8. n \in (Len(up.got) + 1)..up.sent
  BY <1>3, <1>5, <1>6, <1>7, LenProperties
<1>9. ~remoteEof
  <2>1. up.channel # <<>>
    BY <1>2, <1>3, LenProperties, SizesAssumption DEF Chunk
  <2> QED
    BY <1>0, <2>1 DEF ReaderInv
<1> QED
  BY <1>1, <1>4, <1>7, <1>8, <1>9 DEF Up!PRead

\* The service sees the end of input: the thread that copies from the socket
\* has sent it, having read and written everything, or has died of the client's
\* reset.
LEMMA UpRemoteSeesEof ==
    ASSUME IInv, RemoteSeesEof
    PROVE  Up!PEnd
<1>0. TypeOK /\ ReaderInv
  BY DEF IInv
<1>1. /\ UNCHANGED <<client, up>> /\ remote = "open" /\ ~lost /\ ~remoteEof /\ remoteEof'
      /\ remoteEof' = TRUE
      /\ channel \in {"eof", "closed"} /\ up.channel = <<>>
  BY DEF RemoteSeesEof
<1>2. client = "reset" \/ up.got = Up!Units(up.sent)
  <2>1. CASE client # "reset"
    <3>1. reader = "done" /\ up.socket = <<>> /\ data["reader"] = <<>>
      BY <1>0, <1>1, <2>1 DEF ReaderInv
    <3>2. /\ InOrder(up.sent, up.got, <<>>, <<>>, <<>>)
          /\ Total(up.got, <<>>, <<>>, <<>>) = up.sent
      BY <1>1, <2>1, <3>1 DEF IInv, UpInOrder
    <3>3. up.got \in Seq(1..MaxUnits) /\ up.sent \in Nat
      BY <1>0, UpTypes
    <3> QED
      BY <3>2, <3>3, AllOut DEF Up!Units
  <2> QED
    BY <2>1
<1> QED
  BY <1>1, <1>2 DEF Up!PEnd

LEMMA UpClientStep ==
    ASSUME IInv, ClientWrite \/ ClientLeave
    PROVE  [Up!PNext]_Up!pvars
<1>0. TypeOK
  BY DEF IInv
<1>1. CASE ClientWrite
  <2>1. up' = FlowOf(up.sent + 1, up.got, Append(up.socket, up.sent + 1), up.channel)
    BY <1>0, <1>1, UpTypes DEF ClientWrite, FlowOf
  <2>2. up.sent' = up.sent + 1 /\ up.got' = up.got
    BY <2>1 DEF FlowOf
  <2>3. UNCHANGED <<client, remoteEof>>
    BY <1>1 DEF ClientWrite, ends
  <2> QED
    BY <2>2, <2>3 DEF Up!PNext, Up!PWrite
<1>2. CASE ClientLeave
  <2>1. UNCHANGED remoteEof /\ client \in {"open", "shut"}
    BY <1>2 DEF ClientLeave, Connected
  <2>2. CASE client' = "closed" /\ UNCHANGED up
    BY <2>1, <2>2 DEF Up!pvars
  <2>3. CASE client' = "reset" /\ up' = [up EXCEPT !.socket = <<>>]
    <3>1. up' = FlowOf(up.sent, up.got, <<>>, up.channel)
      BY <1>0, <2>3, UpTypes DEF FlowOf
    <3>2. up.sent' = up.sent /\ up.got' = up.got
      BY <3>1 DEF FlowOf
    <3> QED
      BY <2>1, <2>3, <3>2 DEF Up!PNext, Up!PBreak
  <2> QED
    BY <1>2, <2>2, <2>3 DEF ClientLeave
<1> QED
  BY <1>1, <1>2

\* The thread that copies to the channel moves units that have not come out.
LEMMA UpReaderStep ==
    ASSUME IInv, ReaderRead \/ ReaderWrite
    PROVE  UNCHANGED Up!pvars
<1>0. TypeOK
  BY DEF IInv
<1>1. UNCHANGED <<client, remoteEof>>
  BY DEF ReaderRead, ReaderWrite, ends
<1>2. CASE ReaderRead
  <2>1. PICK k \in Chunk(up.socket) : up' = [up EXCEPT !.socket = Rest(@, k)]
    BY <1>2 DEF ReaderRead
  <2>2. up' = FlowOf(up.sent, up.got, Rest(up.socket, k), up.channel)
    BY <1>0, <2>1, UpTypes DEF FlowOf
  <2>3. UNCHANGED <<up.sent, up.got>>
    BY <2>2 DEF FlowOf
  <2> QED
    BY <1>1, <2>3, UpStutters
<1>3. CASE up' = [up EXCEPT !.channel = Append(@, Head(data["reader"]))]
  <2>1. up' = FlowOf(up.sent, up.got, up.socket, Append(up.channel, Head(data["reader"])))
    BY <1>0, <1>3, UpTypes DEF FlowOf
  <2>2. UNCHANGED <<up.sent, up.got>>
    BY <2>1 DEF FlowOf
  <2> QED
    BY <1>1, <2>2, UpStutters
<1>4. CASE UNCHANGED up
  BY <1>1, <1>4, UpStutters
<1> QED
  BY <1>2, <1>3, <1>4 DEF ReaderWrite

LEMMA UpStep ==
    ASSUME IInv, UpOut', [Next]_vars
    PROVE  [Up!PNext]_Up!pvars
<1>1. CASE UNCHANGED <<up, client, remoteEof>>
  BY <1>1 DEF Up!pvars
<1>2. CASE UNCHANGED vars
  BY <1>1, <1>2 DEF vars, ends
<1>3. CASE Outside
  <2>1. CASE ClientConnect \/ ClientShut
    <3>1. UNCHANGED <<up, remoteEof>> /\ client # "reset" /\ client' # "reset"
      BY <2>1 DEF ClientConnect, ClientShut
    <3> QED
      BY <3>1 DEF Up!pvars
  <2>2. CASE ClientRead \/ RemoteWrite \/ RemoteEnds \/ ConnectionLost
    BY <1>1, <2>2 DEF ClientRead, RemoteWrite, RemoteEnds, ConnectionLost, ends
  <2> QED
    BY <1>3, <2>1, <2>2, UpClientStep, UpRemoteRead, UpRemoteSeesEof DEF Outside, Up!PNext
<1>4. CASE Main \/ ServerThread
  BY <1>1, <1>4 DEF Main, ServerThread, MainWait, ClientExits, MainJoin, Listen, Signal, Accept,
                    OpenForward, JoinReader, JoinWriter, Join, Close, ends
<1>5. CASE Reader
  <2>1. CASE ReaderEnds \/ SendEof
    BY <1>1, <2>1 DEF ReaderEnds, SendEof, ends
  <2> QED
    BY <1>5, <2>1, UpReaderStep DEF Reader
<1>6. CASE Writer
  BY <1>1, <1>6 DEF Writer, Poll, WriterRead, WriterFails, WriterWrite, ends
<1> QED
  BY <1>2, <1>3, <1>4, <1>5, <1>6 DEF Next, Done

LEMMA DownClientRead ==
    ASSUME IInv, DownOut', ClientRead
    PROVE  Down!PRead
<1>0. TypeOK
  BY DEF IInv
<1>1. PICK k \in Chunk(down.socket) :
          down' = [down EXCEPT !.socket = Rest(@, k), !.got = @ \o Front(down.socket, k)]
  BY DEF ClientRead
<1>2. down.got \in Seq(1..MaxUnits) /\ down.socket \in Seq(1..MaxUnits) /\ down.sent \in Nat
  BY <1>0, DownTypes
<1>3. down.sent' = down.sent /\ down.got' = down.got \o Front(down.socket, k)
  <2>1. down' = FlowOf(down.sent, down.got \o Front(down.socket, k), Rest(down.socket, k),
                       down.channel)
    BY <1>0, <1>1, DownTypes DEF FlowOf
  <2> QED
    BY <2>1 DEF FlowOf
<1>4. Len(down.got') > Len(down.got)
  BY <1>1, <1>2, <1>3, ReadGrows
<1>5. PICK n : n = Len(down.got')
  OBVIOUS
<1>6. n \in 0..down.sent /\ down.got' = Down!Units(n)
  BY <1>3, <1>5 DEF DownOut, Out, Down!Units
<1>7. n \in (Len(down.got) + 1)..down.sent
  BY <1>2, <1>4, <1>5, <1>6, LenProperties
<1> QED
  BY <1>3, <1>6, <1>7 DEF Down!PRead

LEMMA DownRemoteWrite ==
    ASSUME IInv, RemoteWrite
    PROVE  Down!PWrite
<1>0. TypeOK
  BY DEF IInv
<1>1. down' = FlowOf(down.sent + 1, down.got, down.socket, Append(down.channel, down.sent + 1))
  BY <1>0, DownTypes DEF RemoteWrite, FlowOf
<1>2. down.sent' = down.sent + 1 /\ down.got' = down.got
  BY <1>1 DEF FlowOf
<1> QED
  BY <1>2 DEF Down!PWrite

LEMMA DownWriterStep ==
    ASSUME IInv, WriterRead \/ WriterWrite
    PROVE  UNCHANGED Down!pvars
<1>0. TypeOK
  BY DEF IInv
<1>1. CASE WriterRead
  <2>1. PICK k \in 0..polled.size : down' = [down EXCEPT !.channel = Rest(@, k)]
    BY <1>1 DEF WriterRead
  <2>2. down' = FlowOf(down.sent, down.got, down.socket, Rest(down.channel, k))
    BY <1>0, <2>1, DownTypes DEF FlowOf
  <2>3. UNCHANGED <<down.sent, down.got>>
    BY <2>2 DEF FlowOf
  <2> QED
    BY <2>3, DownStutters
<1>2. CASE down' = [down EXCEPT !.socket = Append(@, Head(data["writer"]))]
  <2>1. down' = FlowOf(down.sent, down.got, Append(down.socket, Head(data["writer"])),
                       down.channel)
    BY <1>0, <1>2, DownTypes DEF FlowOf
  <2>2. UNCHANGED <<down.sent, down.got>>
    BY <2>1 DEF FlowOf
  <2> QED
    BY <2>2, DownStutters
<1>3. CASE UNCHANGED down
  BY <1>3, DownStutters
<1> QED
  BY <1>1, <1>2, <1>3 DEF WriterWrite

LEMMA DownStep ==
    ASSUME IInv, DownOut', [Next]_vars
    PROVE  [Down!PNext]_Down!pvars
<1>1. CASE UNCHANGED down
  BY <1>1, DownStutters
<1>2. CASE UNCHANGED vars
  BY <1>1, <1>2 DEF vars
<1>3. CASE Outside
  <2>1. CASE ClientConnect \/ ClientWrite \/ ClientShut \/ ClientLeave
             \/ RemoteRead \/ RemoteSeesEof \/ RemoteEnds \/ ConnectionLost
    BY <1>1, <2>1 DEF ClientConnect, ClientWrite, ClientShut, ClientLeave, RemoteRead,
                      RemoteSeesEof, RemoteEnds, ConnectionLost
  <2> QED
    BY <1>3, <2>1, DownClientRead, DownRemoteWrite DEF Outside, Down!PNext
<1>4. CASE Main \/ ServerThread
  BY <1>1, <1>4 DEF Main, ServerThread, MainWait, ClientExits, MainJoin, Listen, Signal, Accept,
                    OpenForward, JoinReader, JoinWriter, Join, Close
<1>5. CASE Reader
  BY <1>1, <1>5 DEF Reader, ReaderRead, ReaderEnds, ReaderWrite, SendEof
<1>6. CASE Writer
  <2>1. CASE Poll \/ WriterFails
    BY <1>1, <2>1 DEF Poll, WriterFails
  <2> QED
    BY <1>6, <2>1, DownWriterStep DEF Writer
<1> QED
  BY <1>2, <1>3, <1>4, <1>5, <1>6 DEF Next, Done

LEMMA InitStep == Init => Up!PInit /\ Down!PInit
  BY DEF Init, EmptyFlow, Up!PInit, Down!PInit

\* What the client writes reaches the remote service in order and once, and the
\* end of input only behind all of it, unless the client reset the connection:
\* every step of the forwarding is a step of that pipe or leaves it alone.
THEOREM UpRefined == Spec => UpPipe
<1>1. IInv /\ UpOut' /\ [Next]_vars => [Up!PNext]_Up!pvars
  BY UpStep
<1>2. IInv => UpOut
  BY InvOut
<1>3. Init => Up!PInit
  BY InitStep
<1>4. Spec => Up!PInit /\ [][Up!PNext]_Up!pvars
  BY InitInv, NextInv, <1>1, <1>2, <1>3, PTL DEF Spec
<1> QED
  BY <1>4 DEF UpPipe, Up!PSpec

\* What the remote service writes reaches the client in order and once.
THEOREM DownRefined == Spec => DownPipe
<1>1. IInv /\ DownOut' /\ [Next]_vars => [Down!PNext]_Down!pvars
  BY DownStep
<1>2. IInv => DownOut
  BY InvOut
<1>3. Init => Down!PInit
  BY InitStep
<1>4. Spec => Down!PInit /\ [][Down!PNext]_Down!pvars
  BY InitInv, NextInv, <1>1, <1>2, <1>3, PTL DEF Spec
<1> QED
  BY <1>4 DEF DownPipe, Down!PSpec
=============================================================================
